---- MODULE Spec2Model ----
(***************************************************************************)
(* Verification model of the vlcb-rs network stack: the wire codecs        *)
(* (wire/can.rs, wire/vlcb.rs), the module socket (socket/module.rs), the  *)
(* interface polling engine (iface/interface/mod.rs, can.rs), the core     *)
(* types (core/can.rs, core/cbus.rs), the transmit token of the CAN device *)
(* adapter (phy/can.rs) and the service set (module/service_set.rs).       *)
(***************************************************************************)
EXTENDS Integers, Sequences, FiniteSets, TLC

VARIABLES
    buffer,     \* wire/can.rs Frame.buffer: the CAN frame buffer under edit
    packet,     \* wire/vlcb.rs Packet.buffer: the VLCB packet buffer under edit
    wargs,      \* the field values handed to the setters
    wdone,      \* the setters applied so far
    sockets,    \* the SocketSet: a sequence of module sockets
    ret,        \* the result of the last socket-layer call
    data,       \* the caller's slice of the last recv_slice / peek_slice
    dev_rx,     \* the Device: buffers it will still hand out through receive()
    dev_txcap,  \* the Device: transmit tokens it will still hand out
    pc,         \* position of the caller inside Interface::poll
    poll,       \* the locals of the running poll call and its bookkeeping
    call,       \* the last call made on a core type, codec or token, with its outcome
    services,   \* module/service_set.rs ServiceSet.services: the slots, in order
    lower,      \* phy/can.rs EmbeddedCan.lower: the frames handed to the CAN driver
    lower_rx,   \* phy/can.rs EmbeddedCan.lower: the frames the CAN driver will deliver
    config      \* persistence/node_config.rs: the NodeConfigStorage

wireVars == <<buffer, packet, wargs, wdone>>
sockVars == <<sockets, ret, data>>
ifaceVars == <<dev_rx, dev_txcap, pc, poll>>
coreVars == <<call, services, lower, lower_rx, config>>
vars == <<buffer, packet, wargs, wdone, sockets, ret, data, dev_rx, dev_txcap, pc, poll,
          call, services, lower, lower_rx, config>>

(***************************************************************************)
(* Fixed-width integer helpers (u8 / u16 arithmetic of the codecs).        *)
(***************************************************************************)
RECURSIVE BitAndN(_, _, _)
BitAndN(a, b, n) ==
    IF n = 0 THEN 0
    ELSE ((a % 2) * (b % 2)) + 2 * BitAndN(a \div 2, b \div 2, n - 1)

RECURSIVE BitOrN(_, _, _)
BitOrN(a, b, n) ==
    IF n = 0 THEN 0
    ELSE (IF (a % 2) + (b % 2) > 0 THEN 1 ELSE 0) + 2 * BitOrN(a \div 2, b \div 2, n - 1)

And8(a, b) == BitAndN(a, b, 8)
Or8(a, b) == BitOrN(a, b, 8)
Not8(a) == 255 - a
Shl8(a, k) == (a * (2 ^ k)) % 256
And16(a, b) == BitAndN(a, b, 16)
Or16(a, b) == BitOrN(a, b, 16)
Not16(a) == 65535 - a
Shl16(a, k) == (a * (2 ^ k)) % 65536

\* byteorder::NetworkEndian::read_u16 / write_u16 on the two header octets
read_u16(buf) == buf[1] * 256 + buf[2]
write_u16(buf, v) == [buf EXCEPT ![1] = v \div 256, ![2] = v % 256]

(***************************************************************************)
(* core/src/can.rs and core/src/macros.rs                                  *)
(***************************************************************************)
CANID_MASK == 127

\* a plausible slip: the octet is stored as given, the mask forgotten
VlcbCanId_from_bytes_unmasked(octet) == octet

\* VlcbCanId::from_bytes: the stored octet is the input with bit 7 cleared
VlcbCanId_from_bytes(octet) == And8(octet, CANID_MASK)

\* mask_and_insert_value!(orig, value, mask, T), the unshifted arm
mask_and_insert_value8(orig, value, mask) ==
    Or8(And8(orig, Not8(mask)), And8(value, mask))
mask_and_insert_value16(orig, value, mask) ==
    Or16(And16(orig, Not16(mask)), And16(value, mask))

(***************************************************************************)
(* wire/can.rs: Frame, a view over a 2-octet header plus payload.          *)
(* Buffers are 1-based sequences: buffer[1] is octet 0 of the source.      *)
(***************************************************************************)
HEADER_RTR_MASK == 32768
ID_PRIORITY_MASK == 1920
Priority_MASK == 3
CAN_HEADER_LEN == 2
ID_CANID == 2

\* a plausible slip: only the header is checked, the payload limit forgotten
Frame_check_len_header_only(buf) ==
    IF Len(buf) < CAN_HEADER_LEN THEN "Err" ELSE "Ok"

\* Frame::check_len
Frame_check_len(buf) ==
    IF Len(buf) < CAN_HEADER_LEN \/ Len(buf) - CAN_HEADER_LEN > 8 THEN "Err" ELSE "Ok"

\* Frame::src_addr
src_addr(buf) == VlcbCanId_from_bytes(buf[ID_CANID])

\* Frame::priority: `a & MASK << 7` parses as a & (MASK << 7) on u16, then `as u8`
priority(buf) ==
    LET prio == And16(read_u16(buf), Shl16(ID_PRIORITY_MASK, 7)) % 256
    IN  And8(prio, Priority_MASK)

\* Frame::is_rtr
is_rtr(buf) == And16(read_u16(buf), HEADER_RTR_MASK) # 0

\* Frame::payload
frame_payload(buf) == SubSeq(buf, CAN_HEADER_LEN + 1, Len(buf))

\* a plausible slip: the address is stored over the whole octet
set_src_addr_whole_octet(buf, value) ==
    [buf EXCEPT ![ID_CANID] = value]

\* Frame::set_src_addr
set_src_addr(buf, value) ==
    [buf EXCEPT ![ID_CANID] = mask_and_insert_value8(buf[ID_CANID], value, CANID_MASK)]

\* Frame::set_priority: `(val << 7)` is a u8 shift, widened to u16 afterwards
set_priority(buf, prio) ==
    write_u16(buf, mask_and_insert_value16(read_u16(buf), Shl8(prio, 7), ID_PRIORITY_MASK))

\* Frame::set_rtr: only the `true` branch writes
set_rtr(buf, value) ==
    IF value THEN write_u16(buf, Or16(read_u16(buf), HEADER_RTR_MASK)) ELSE buf

\* Frame::payload_mut followed by copy_from_slice(p)
frame_payload_write(buf, p) == SubSeq(buf, 1, CAN_HEADER_LEN) \o p

(***************************************************************************)
(* wire/vlcb.rs: Packet, a view whose leading octet packs opcode and       *)
(* payload length.                                                         *)
(***************************************************************************)
OPCODE_MASK == 31
DATA_LEN_MASK == 224
VLCB_HEADER_LEN == 1

\* Packet::opcode
opcode(buf) == And8(buf[1], OPCODE_MASK)

\* Packet::payload_len
payload_len(buf) == And8(buf[1], DATA_LEN_MASK) \div 32

\* Packet::total_len
total_len(buf) == payload_len(buf)

\* Packet::check_len
Packet_check_len(buf) ==
    IF Len(buf) < VLCB_HEADER_LEN THEN "Err"
    ELSE IF VLCB_HEADER_LEN > total_len(buf) THEN "Err"
    ELSE IF Len(buf) < total_len(buf) THEN "Err"
    ELSE "Ok"

\* a plausible slip: the opcode setter overwrites the whole leading octet
set_opcode_clobber(buf, value) ==
    [buf EXCEPT ![1] = And8(value, OPCODE_MASK)]

\* Packet::set_opcode
set_opcode(buf, value) ==
    [buf EXCEPT ![1] = Or8(And8(buf[1], Not8(OPCODE_MASK)), And8(value, OPCODE_MASK))]

\* Packet::set_payload_len
set_payload_len(buf, value) ==
    [buf EXCEPT ![1] = Or8(And8(buf[1], Not8(DATA_LEN_MASK)), And8(Shl8(value, 5), DATA_LEN_MASK))]

(***************************************************************************)
(* Bounds of the model.                                                    *)
(***************************************************************************)
MaxCap == 2         \* largest packet capacity of a socket ring
MaxBuf == 2         \* largest caller slice handed to recv_slice / peek_slice
MaxSockets == 2     \* largest number of sockets in the SocketSet
MaxRx == 2          \* largest number of buffers queued in the device
MaxTxCap == 1       \* largest number of transmit tokens the device offers

\* payloads an application sends or finds queued, of lengths 1 and 2
Payloads == { <<1>>, <<2, 3>> }
\* the octet a caller's slice holds before a call writes into it
Filler == 0

RECURSIVE Fill(_, _)
Fill(n, v) == IF n = 0 THEN <<>> ELSE <<v>> \o Fill(n - 1, v)

RECURSIVE SeqsUpTo(_, _)
SeqsUpTo(S, n) ==
    IF n = 0 THEN { <<>> }
    ELSE LET shorter == SeqsUpTo(S, n - 1)
         IN  shorter \cup { Append(q, x) : q \in shorter, x \in S }

min(a, b) == IF a < b THEN a ELSE b

(***************************************************************************)
(* storage::PacketBuffer: a bounded FIFO ring of (metadata, payload)       *)
(* entries; `q` is the queued payloads, oldest first, `cap` the packet     *)
(* capacity of the ring.                                                   *)
(***************************************************************************)
PacketBuffer_is_full(q, cap) == Len(q) >= cap
PacketBuffer_is_empty(q) == Len(q) = 0
\* enqueue(size, ()): a fresh size-octet slot at the back, or Err(Full)
PacketBuffer_enqueue(q, cap, size) ==
    IF PacketBuffer_is_full(q, cap)
    THEN [res |-> "Full", q |-> q]
    ELSE [res |-> "Ok", q |-> Append(q, Fill(size, 0))]
\* dequeue(): removes and returns the oldest entry, or Err(Empty)
PacketBuffer_dequeue(q) ==
    IF PacketBuffer_is_empty(q)
    THEN [res |-> "Empty", val |-> <<>>, q |-> q]
    ELSE [res |-> "Ok", val |-> Head(q), q |-> Tail(q)]
\* peek(): returns the oldest entry and leaves the ring alone, or Err(Empty)
PacketBuffer_peek(q) ==
    IF PacketBuffer_is_empty(q)
    THEN [res |-> "Empty", val |-> <<>>]
    ELSE [res |-> "Ok", val |-> Head(q)]

(***************************************************************************)
(* socket/module.rs: Socket.  A socket is a record                         *)
(*   [rx_buffer, tx_buffer : queued payloads, rxcap, txcap : capacities]   *)
(* Each method returns [res, val, len, data, sock]: the Result tag, the    *)
(* payload or length it yields, the caller's slice and the socket after.   *)
(***************************************************************************)
\* Socket::new over caller-supplied buffers
Socket_new(rx, rxcap, tx, txcap) ==
    [rx_buffer |-> rx, tx_buffer |-> tx, rxcap |-> rxcap, txcap |-> txcap]

\* Socket::can_send
can_send(s) == ~PacketBuffer_is_full(s.tx_buffer, s.txcap)

\* Socket::can_recv
can_recv(s) == ~PacketBuffer_is_empty(s.rx_buffer)

\* Socket::send
send(s, size) ==
    LET e == PacketBuffer_enqueue(s.tx_buffer, s.txcap, size)
    IN  IF e.res # "Ok"
        THEN [res |-> "BufferFull", val |-> <<>>, len |-> 0, data |-> <<>>, sock |-> s]
        ELSE [res |-> "Ok", val |-> <<>>, len |-> size, data |-> <<>>,
              sock |-> [s EXCEPT !.tx_buffer = e.q]]

\* a plausible slip: a full ring overwrites its newest entry and reports Ok
send_slice_overwrite(s, d) ==
    LET r == send(s, Len(d))
    IN  IF r.res # "Ok"
        THEN [r EXCEPT !.res = "Ok",
                       !.sock = [s EXCEPT !.tx_buffer[Len(s.tx_buffer)] = d]]
        ELSE [r EXCEPT !.sock = [r.sock EXCEPT !.tx_buffer[Len(r.sock.tx_buffer)] = d]]

\* Socket::send_slice: send(data.len())?.copy_from_slice(data)
send_slice(s, d) ==
    LET r == send(s, Len(d))
    IN  IF r.res # "Ok" THEN r
        ELSE [r EXCEPT !.sock = [r.sock EXCEPT !.tx_buffer[Len(r.sock.tx_buffer)] = d]]

\* Socket::recv
recv(s) ==
    LET e == PacketBuffer_dequeue(s.rx_buffer)
    IN  IF e.res # "Ok"
        THEN [res |-> "Exhausted", val |-> <<>>, len |-> 0, data |-> <<>>, sock |-> s]
        ELSE [res |-> "Ok", val |-> e.val, len |-> Len(e.val), data |-> <<>>,
              sock |-> [s EXCEPT !.rx_buffer = e.q]]

\* Socket::peek
peek(s) ==
    LET e == PacketBuffer_peek(s.rx_buffer)
    IN  IF e.res # "Ok"
        THEN [res |-> "Exhausted", val |-> <<>>, len |-> 0, data |-> <<>>, sock |-> s]
        ELSE [res |-> "Ok", val |-> e.val, len |-> Len(e.val), data |-> <<>>, sock |-> s]

\* data[..length].copy_from_slice(&buffer[..length])
copy_prefix(d, b, length) ==
    [i \in 1..Len(d) |-> IF i <= length THEN b[i] ELSE d[i]]

\* a plausible slip: the length check runs on a peeked packet, before the dequeue
recv_slice_keep(s, d) ==
    LET p == peek(s)
    IN  IF p.res # "Ok" THEN [p EXCEPT !.data = d]
        ELSE IF Len(d) < Len(p.val)
        THEN [res |-> "Truncated", val |-> <<>>, len |-> 0, data |-> d, sock |-> s]
        ELSE [res |-> "Ok", val |-> <<>>, len |-> Len(p.val),
              data |-> copy_prefix(d, p.val, Len(p.val)), sock |-> recv(s).sock]

\* Socket::recv_slice
recv_slice(s, d) ==
    LET r == recv(s)
    IN  IF r.res # "Ok" THEN [r EXCEPT !.data = d]
        ELSE IF Len(d) < Len(r.val)
        THEN [res |-> "Truncated", val |-> <<>>, len |-> 0, data |-> d, sock |-> r.sock]
        ELSE LET length == min(Len(d), Len(r.val))
             IN  [res |-> "Ok", val |-> <<>>, len |-> length,
                  data |-> copy_prefix(d, r.val, length), sock |-> r.sock]

\* a plausible slip: peek_slice is a copy of recv_slice and dequeues
peek_slice_dequeue(s, d) == recv_slice(s, d)

\* Socket::peek_slice
peek_slice(s, d) ==
    LET r == peek(s)
    IN  IF r.res # "Ok" THEN [r EXCEPT !.data = d]
        ELSE IF Len(d) < Len(r.val)
        THEN [res |-> "Truncated", val |-> <<>>, len |-> 0, data |-> d, sock |-> r.sock]
        ELSE LET length == min(Len(d), Len(r.val))
             IN  [res |-> "Ok", val |-> <<>>, len |-> length,
                  data |-> copy_prefix(d, r.val, length), sock |-> r.sock]

\* Socket::poll_at
poll_at(s) == IF PacketBuffer_is_empty(s.tx_buffer) THEN "Ingress" ELSE "Now"

\* socket/mod.rs, Socket::poll_at of the enum wrapper:
\* match self { Socket::Module(_s) => todo!() }
Socket_poll_at(s) == "panic"

(***************************************************************************)
(* iface/interface: the polling engine.                                    *)
(***************************************************************************)
\* buffers a device hands out: too short for a CAN header, header only,
\* a packet octet declaring payload length 0, one declaring length 1,
\* and a frame longer than header plus 8 octets
Frames == { <<>>, <<0, 5>>, <<0, 5, 0>>, <<0, 5, 33>>,
            <<0, 5, 33, 0, 0, 0, 0, 0, 0, 0, 0>> }

\* a plausible slip: the validation results are unwrapped instead of checked
process_can_unwrap(frame) == "panic"

\* InterfaceInner::process_can: check! yields None on a malformed buffer,
\* and a well-formed one runs into the todo!() that ends the function
process_can(frame) ==
    IF Frame_check_len(frame) = "Err" THEN "None"
    ELSE IF Packet_check_len(frame_payload(frame)) = "Err" THEN "None"
    ELSE "panic"

\* Socket::process: the body is todo!()
process(s, payload) == "panic"

\* Socket::dispatch: the body is todo!(), reached before the emitter is called
dispatch(s) == "panic"

\* SocketSet::items_mut: the live sockets in collection order
items_mut(set) == [i \in 1..Len(set) |-> set[i]]

\* a plausible slip: the flag is assigned from the last round instead of latched
poll_loop_tail_unlatched(readiness_may_have_changed, did_something) ==
    [readiness_may_have_changed |-> did_something, again |-> did_something]

\* Interface::poll, the tail of the loop body:
\* if did_something { readiness_may_have_changed = true } else { break }
poll_loop_tail(readiness_may_have_changed, did_something) ==
    [readiness_may_have_changed |-> IF did_something THEN TRUE ELSE readiness_may_have_changed,
     again |-> did_something]

NoRet == [op |-> "none", sock |-> 0, res |-> "none", val |-> <<>>, len |-> 0]

\* no call made yet on a core type, codec or token
NoCall == [op |-> "none"]

\* no node configuration constructed
NoConfig == [nvs |-> <<>>]

\* total of pending transmits over the socket set
RECURSIVE Pending(_)
Pending(set) == IF set = <<>> THEN 0 ELSE Len(Head(set).tx_buffer) + Pending(Tail(set))

\* the poll record between calls
PollIdle ==
    [did_something |-> FALSE, readiness_may_have_changed |-> FALSE,
     processed_any |-> FALSE, emitted_any |-> FALSE, item |-> 0,
     rx_round |-> 0, tx_round |-> 0, log |-> <<>>,
     K0 |-> 0, M0 |-> 0, cap0 |-> 0,
     result |-> "none", quiet |-> FALSE, second |-> FALSE, where |-> "none"]

BoolStr(b) == IF b THEN "true" ELSE "false"

(***************************************************************************)
(* Socket-layer calls made by the application between polls.               *)
(***************************************************************************)
\* a plausible slip: the ring written is shared by every socket of the set
SendSlice_shared_ring(i, d) ==
    /\ pc = "idle"
    /\ LET r == send_slice(sockets[i], d)
       IN  /\ sockets' = [j \in 1..Len(sockets) |->
                             [sockets[j] EXCEPT !.tx_buffer = r.sock.tx_buffer]]
           /\ ret' = [op |-> "send_slice", sock |-> i, res |-> r.res, val |-> d, len |-> r.len]
    /\ data' = <<>>
    /\ poll' = PollIdle
    /\ UNCHANGED <<coreVars, wireVars, dev_rx, dev_txcap, pc>>

SendSlice(i, d) ==
    /\ pc = "idle"
    /\ LET r == send_slice(sockets[i], d)
       IN  /\ sockets' = [sockets EXCEPT ![i] = r.sock]
           /\ ret' = [op |-> "send_slice", sock |-> i, res |-> r.res, val |-> d, len |-> r.len]
    /\ data' = <<>>
    /\ poll' = PollIdle
    /\ UNCHANGED <<coreVars, wireVars, dev_rx, dev_txcap, pc>>

Recv(i) ==
    /\ pc = "idle"
    /\ LET r == recv(sockets[i])
       IN  /\ sockets' = [sockets EXCEPT ![i] = r.sock]
           /\ ret' = [op |-> "recv", sock |-> i, res |-> r.res, val |-> r.val, len |-> r.len]
    /\ data' = <<>>
    /\ poll' = PollIdle
    /\ UNCHANGED <<coreVars, wireVars, dev_rx, dev_txcap, pc>>

RecvSlice(i, n) ==
    /\ pc = "idle"
    /\ LET r == recv_slice(sockets[i], Fill(n, Filler))
       IN  /\ sockets' = [sockets EXCEPT ![i] = r.sock]
           /\ ret' = [op |-> "recv_slice", sock |-> i, res |-> r.res, val |-> r.val, len |-> r.len]
           /\ data' = r.data
    /\ poll' = PollIdle
    /\ UNCHANGED <<coreVars, wireVars, dev_rx, dev_txcap, pc>>

Peek(i) ==
    /\ pc = "idle"
    /\ LET r == peek(sockets[i])
       IN  /\ sockets' = [sockets EXCEPT ![i] = r.sock]
           /\ ret' = [op |-> "peek", sock |-> i, res |-> r.res, val |-> r.val, len |-> r.len]
    /\ data' = <<>>
    /\ poll' = PollIdle
    /\ UNCHANGED <<coreVars, wireVars, dev_rx, dev_txcap, pc>>

PeekSlice(i, n) ==
    /\ pc = "idle"
    /\ LET r == peek_slice(sockets[i], Fill(n, Filler))
       IN  /\ sockets' = [sockets EXCEPT ![i] = r.sock]
           /\ ret' = [op |-> "peek_slice", sock |-> i, res |-> r.res, val |-> r.val, len |-> r.len]
           /\ data' = r.data
    /\ poll' = PollIdle
    /\ UNCHANGED <<coreVars, wireVars, dev_rx, dev_txcap, pc>>

\* the ingress handler called on a socket with a received payload
Process(i, p) ==
    /\ pc = "idle"
    /\ process(sockets[i], p) = "panic"
    /\ pc' = "panicked"
    /\ ret' = [op |-> "process", sock |-> i, res |-> "panic", val |-> p, len |-> Len(p)]
    /\ data' = <<>>
    /\ poll' = [PollIdle EXCEPT !.where = "process"]
    /\ UNCHANGED <<coreVars, wireVars, sockets, dev_rx, dev_txcap>>

\* poll_at on the typed module socket
PollAt(i) ==
    /\ pc = "idle"
    /\ ret' = [op |-> "poll_at", sock |-> i, res |-> poll_at(sockets[i]), val |-> <<>>, len |-> 0]
    /\ data' = <<>>
    /\ poll' = PollIdle
    /\ UNCHANGED <<coreVars, wireVars, sockets, dev_rx, dev_txcap, pc>>

\* poll_at on the Socket enum wrapping the module socket
SocketPollAt(i) ==
    /\ pc = "idle"
    /\ LET r == Socket_poll_at(sockets[i])
       IN  /\ ret' = [op |-> "Socket::poll_at", sock |-> i, res |-> r, val |-> <<>>, len |-> 0]
           /\ pc' = IF r = "panic" THEN "panicked" ELSE pc
           /\ poll' = IF r = "panic" THEN [PollIdle EXCEPT !.where = "poll_at"] ELSE PollIdle
    /\ data' = <<>>
    /\ UNCHANGED <<coreVars, wireVars, sockets, dev_rx, dev_txcap>>

(***************************************************************************)
(* The device between polls: a buffer arrives from the bus.                *)
(***************************************************************************)
FrameArrives(f) ==
    /\ pc = "idle"
    /\ Len(dev_rx) < MaxRx
    /\ dev_rx' = Append(dev_rx, f)
    /\ ret' = NoRet
    /\ data' = <<>>
    /\ poll' = PollIdle
    /\ UNCHANGED <<coreVars, wireVars, sockets, dev_txcap, pc>>

(***************************************************************************)
(* Interface::poll, one step per loop iteration of the source.             *)
(***************************************************************************)
\* entry: readiness_may_have_changed = false, then the first round begins
PollStart ==
    /\ pc = "idle"
    /\ pc' = "ingress"
    /\ poll' = [PollIdle EXCEPT !.K0 = Len(dev_rx), !.M0 = Pending(sockets),
                                !.cap0 = dev_txcap, !.second = poll.quiet]
    /\ ret' = NoRet
    /\ data' = <<>>
    /\ UNCHANGED <<coreVars, wireVars, sockets, dev_rx, dev_txcap>>

\* ingress_packets: device.receive() yields a token pair and rx_token.consume runs
IngressReceive ==
    /\ pc = "ingress"
    /\ dev_rx # <<>>
    /\ dev_rx' = Tail(dev_rx)
    /\ IF process_can(Head(dev_rx)) = "panic"
       THEN /\ pc' = "panicked"
            /\ poll' = [poll EXCEPT !.where = "process_can"]
       ELSE /\ pc' = pc
            /\ poll' = [poll EXCEPT !.processed_any = TRUE, !.rx_round = @ + 1]
    /\ UNCHANGED <<coreVars, wireVars, sockVars, dev_txcap>>

\* ingress_packets: device.receive() yields None, the pass returns processed_any
IngressDone ==
    /\ pc = "ingress"
    /\ dev_rx = <<>>
    /\ pc' = "egress"
    /\ poll' = [poll EXCEPT !.did_something = @ \/ poll.processed_any,
                            !.emitted_any = FALSE, !.item = 1]
    /\ UNCHANGED <<coreVars, wireVars, sockVars, dev_rx, dev_txcap>>

\* egress_packets: the loop body for the next item of sockets.items_mut()
EgressItem ==
    /\ pc = "egress"
    /\ poll.item <= Len(items_mut(sockets))
    /\ dispatch(items_mut(sockets)[poll.item]) = "panic"
    /\ pc' = "panicked"
    /\ poll' = [poll EXCEPT !.where = "dispatch"]
    /\ UNCHANGED <<coreVars, wireVars, sockVars, dev_rx, dev_txcap>>

\* egress_packets: the items are used up, the pass returns emitted_any
EgressDone ==
    /\ pc = "egress"
    /\ poll.item > Len(items_mut(sockets))
    /\ pc' = "round_end"
    /\ poll' = [poll EXCEPT !.did_something = @ \/ poll.emitted_any]
    /\ UNCHANGED <<coreVars, wireVars, sockVars, dev_rx, dev_txcap>>

\* poll: the end of one round, either another round or the return
RoundEnd ==
    /\ pc = "round_end"
    /\ LET t == poll_loop_tail(poll.readiness_may_have_changed, poll.did_something)
           logged == Append(poll.log, [rx |-> poll.rx_round, tx |-> poll.tx_round])
       IN  IF t.again
           THEN /\ pc' = "ingress"
                /\ poll' = [poll EXCEPT !.readiness_may_have_changed = t.readiness_may_have_changed,
                                        !.did_something = FALSE, !.processed_any = FALSE,
                                        !.rx_round = 0, !.tx_round = 0, !.log = logged]
           ELSE /\ pc' = "idle"
                /\ poll' = [poll EXCEPT !.readiness_may_have_changed = t.readiness_may_have_changed,
                                        !.log = logged, !.quiet = TRUE,
                                        !.result = BoolStr(t.readiness_may_have_changed)]
    /\ UNCHANGED <<coreVars, wireVars, sockVars, dev_rx, dev_txcap>>

PollStep == IngressReceive \/ IngressDone \/ EgressItem \/ EgressDone \/ RoundEnd

(***************************************************************************)
(* Spec: the interface with its device and socket set.                     *)
(***************************************************************************)
\* the sockets the module registers: empty rings of MaxCap packets each
FreshSockets ==
    { Socket_new(<<>>, MaxCap, <<>>, MaxCap) }

\* the payload the application queues for transmission between polls
PollPayloads == { <<1>> }

Init ==
    /\ buffer = <<>> /\ packet = <<>> /\ wargs = <<>> /\ wdone = {}
    /\ sockets \in SeqsUpTo(FreshSockets, MaxSockets)
    /\ ret = NoRet
    /\ data = <<>>
    /\ dev_rx = <<>>
    /\ dev_txcap \in 0..MaxTxCap
    /\ pc = "idle"
    /\ poll = PollIdle
    /\ call = NoCall /\ services = <<>> /\ lower = <<>> /\ lower_rx = <<>> /\ config = NoConfig

Next ==
    \/ \E i \in 1..Len(sockets), d \in PollPayloads : SendSlice(i, d)
    \/ \E f \in Frames : FrameArrives(f)
    \/ PollStart
    \/ IngressReceive
    \/ IngressDone
    \/ EgressItem
    \/ EgressDone
    \/ RoundEnd

Spec == Init /\ [][Next]_vars

\* a poll call, once entered, runs on: the caller is single-threaded and
\* nothing in the loop blocks
FairSpec == Spec /\ WF_vars(PollStep)

(***************************************************************************)
(* SocketSpec: one module socket driven through its public methods.  The   *)
(* receive ring holds whatever the caller-supplied buffer of Socket::new   *)
(* held.                                                                   *)
(***************************************************************************)
SocketInit ==
    /\ buffer = <<>> /\ packet = <<>> /\ wargs = <<>> /\ wdone = {}
    /\ \E rxcap \in 1..MaxCap, txcap \in 1..MaxCap :
         \E rx \in SeqsUpTo(Payloads, rxcap) :
            sockets = << Socket_new(rx, rxcap, <<>>, txcap) >>
    /\ ret = NoRet
    /\ data = <<>>
    /\ dev_rx = <<>>
    /\ dev_txcap = 0
    /\ pc = "idle"
    /\ poll = PollIdle
    /\ call = NoCall /\ services = <<>> /\ lower = <<>> /\ lower_rx = <<>> /\ config = NoConfig

SocketNext ==
    \/ \E d \in Payloads : SendSlice(1, d)
    \/ Recv(1)
    \/ \E n \in 0..MaxBuf : RecvSlice(1, n)
    \/ Peek(1)
    \/ \E n \in 0..MaxBuf : PeekSlice(1, n)
    \/ \E p \in Payloads : Process(1, p)
    \/ PollAt(1)
    \/ SocketPollAt(1)

SocketSpec == SocketInit /\ [][SocketNext]_vars

(***************************************************************************)
(* FrameSpec: the CAN frame setters applied, in any order, to a buffer     *)
(* with arbitrary prior header contents.                                   *)
(***************************************************************************)
Addrs == {0, 1, 85, 127}
Priorities == 0..3
FramePayloads == { <<>>, <<7>>, <<1, 2, 3, 4, 5, 6, 7, 8>> }
PriorHeaders == { <<0, 0>>, <<255, 255>> }
FrameSetters == {"src_addr", "priority", "rtr", "payload"}

FrameInit ==
    /\ wargs \in [addr : Addrs, priority : Priorities, rtr : BOOLEAN, payload : FramePayloads]
    /\ \E h \in PriorHeaders : buffer = h \o Fill(Len(wargs.payload), 0)
    /\ wdone = {}
    /\ packet = <<>>
    /\ sockets = <<>> /\ ret = NoRet /\ data = <<>>
    /\ dev_rx = <<>> /\ dev_txcap = 0 /\ pc = "idle" /\ poll = PollIdle
    /\ call = NoCall /\ services = <<>> /\ lower = <<>> /\ lower_rx = <<>> /\ config = NoConfig

FrameSetSrcAddr ==
    /\ "src_addr" \notin wdone /\ wdone \subseteq FrameSetters
    /\ buffer' = set_src_addr(buffer, wargs.addr)
    /\ wdone' = wdone \cup {"src_addr"}
    /\ UNCHANGED <<coreVars, packet, wargs, sockVars, ifaceVars>>

FrameSetPriority ==
    /\ "priority" \notin wdone /\ wdone \subseteq FrameSetters
    /\ buffer' = set_priority(buffer, wargs.priority)
    /\ wdone' = wdone \cup {"priority"}
    /\ UNCHANGED <<coreVars, packet, wargs, sockVars, ifaceVars>>

FrameSetRtr ==
    /\ "rtr" \notin wdone /\ wdone \subseteq FrameSetters
    /\ buffer' = set_rtr(buffer, wargs.rtr)
    /\ wdone' = wdone \cup {"rtr"}
    /\ UNCHANGED <<coreVars, packet, wargs, sockVars, ifaceVars>>

FrameWritePayload ==
    /\ "payload" \notin wdone /\ wdone \subseteq FrameSetters
    /\ buffer' = frame_payload_write(buffer, wargs.payload)
    /\ wdone' = wdone \cup {"payload"}
    /\ UNCHANGED <<coreVars, packet, wargs, sockVars, ifaceVars>>

FrameNext == FrameSetSrcAddr \/ FrameSetPriority \/ FrameSetRtr \/ FrameWritePayload

FrameSpec == FrameInit /\ [][FrameNext]_vars

(***************************************************************************)
(* PacketSpec: the VLCB packet header setters applied, in either order,    *)
(* to a leading octet with arbitrary prior contents.                       *)
(***************************************************************************)
LeadOctets == {0, 90, 165, 255}
Opcodes == 0..31
PayloadLens == 0..7

PacketInit ==
    /\ wargs \in [opcode : Opcodes, payload_len : PayloadLens]
    /\ \E b \in LeadOctets : packet = <<b>>
    /\ wdone = {}
    /\ buffer = <<>>
    /\ sockets = <<>> /\ ret = NoRet /\ data = <<>>
    /\ dev_rx = <<>> /\ dev_txcap = 0 /\ pc = "idle" /\ poll = PollIdle
    /\ call = NoCall /\ services = <<>> /\ lower = <<>> /\ lower_rx = <<>> /\ config = NoConfig

PacketSetOpcode ==
    /\ "opcode" \notin wdone
    /\ packet' = set_opcode(packet, wargs.opcode)
    /\ wdone' = wdone \cup {"opcode"}
    /\ UNCHANGED <<coreVars, buffer, wargs, sockVars, ifaceVars>>

PacketSetPayloadLen ==
    /\ "payload_len" \notin wdone
    /\ packet' = set_payload_len(packet, wargs.payload_len)
    /\ wdone' = wdone \cup {"payload_len"}
    /\ UNCHANGED <<coreVars, buffer, wargs, sockVars, ifaceVars>>

PacketNext == PacketSetOpcode \/ PacketSetPayloadLen

PacketSpec == PacketInit /\ [][PacketNext]_vars

(***************************************************************************)
(* Properties of the polling engine.                                       *)
(***************************************************************************)
RECURSIVE LogRx(_)
LogRx(log) == IF log = <<>> THEN 0 ELSE Head(log).rx + LogRx(Tail(log))
RECURSIVE LogTx(_)
LogTx(log) == IF log = <<>> THEN 0 ELSE Head(log).tx + LogTx(Tail(log))
RoundProgress(r) == r.rx + r.tx > 0
PollReturned == pc = "idle" /\ poll.result # "none"
PollAborted == pc = "panicked" /\ poll.where \in {"process_can", "dispatch"}

\* C1: a poll call runs rounds of ingress then egress; a round that consumed
\* a receive token or emitted a packet is followed by another round, a round
\* that did neither ends the call, and the call returns true exactly when
\* some round of it made progress.
PollFixedPoint ==
    [][ /\ (pc = "ingress" => pc' \in {"ingress", "egress", "panicked"})
        /\ (pc = "egress" => pc' \in {"egress", "round_end", "panicked"})
        /\ (pc = "round_end" =>
              IF poll.rx_round + poll.tx_round > 0
              THEN pc' = "ingress" /\ poll'.result = "none"
              ELSE /\ pc' = "idle"
                   /\ poll'.result =
                        BoolStr(\E k \in 1..Len(poll'.log) : RoundProgress(poll'.log[k]))
                   /\ (poll'.result = "false") = ~RoundProgress(poll'.log[1])) ]_vars

\* C1 witness: a call returned true after a round with progress and a dry round
PollReturnedTrue ==
    /\ PollReturned /\ poll.result = "true"
    /\ Len(poll.log) = 2 /\ poll.log[1].rx = 2 /\ ~RoundProgress(poll.log[2])

\* C2: a poll entered with K receivable buffers and M pending transmits,
\* K + M > 0 and device capacity at least M, returns true having consumed
\* all K and attempted all M; a poll that follows a returned poll with no
\* input or output in between returns false.
PollDrainsAll ==
    /\ ((PollReturned \/ PollAborted) /\ poll.K0 + poll.M0 > 0 /\ poll.cap0 >= poll.M0
          => /\ PollReturned
             /\ poll.result = "true"
             /\ LogRx(poll.log) = poll.K0
             /\ LogTx(poll.log) = poll.M0)
    /\ (PollReturned /\ poll.second => poll.result = "false")

\* C3: when the device offers fewer transmit tokens than there are pending
\* packets, the egress pass ends without failing the poll, having attempted
\* as many transmits as there were tokens, and the rest stays queued.
EgressStopsOnExhaustion ==
    poll.cap0 < poll.M0 =>
        /\ ~(pc = "panicked" /\ poll.where = "dispatch")
        /\ (pc = "round_end" /\ poll.log = <<>> =>
              poll.tx_round = poll.cap0 /\ Pending(sockets) = poll.M0 - poll.cap0)

\* C4: every poll call that was entered returns.
PollTerminates == (pc \in {"ingress", "egress", "round_end"}) ~> (pc = "idle")

RecvSliceTruncatedDrops ==
    [][ (/\ ret'.op = "recv_slice"
         /\ sockets[ret'.sock].rx_buffer # <<>>
         /\ Len(data') < Len(Head(sockets[ret'.sock].rx_buffer)))
        => /\ ret'.res = "Truncated"
           /\ sockets'[ret'.sock].rx_buffer = Tail(sockets[ret'.sock].rx_buffer) ]_vars

\* C6 witness: a truncated recv_slice with another packet still queued behind
RecvSliceTruncated ==
    /\ ret.op = "recv_slice" /\ ret.res = "Truncated"
    /\ sockets[1].rx_buffer # <<>>

\* C7: the receive ring is FIFO: an ingress delivery puts the payload at the
\* back (or drops it when the ring is full) and does not abort, a successful
\* recv returns and removes the oldest payload, and recv on an empty ring
\* returns Exhausted and changes nothing.
ReceiveRingFifo ==
    [][ LET i == ret'.sock
        IN  /\ (ret'.op = "process" =>
                  /\ pc' = "idle"
                  /\ sockets'[i].rx_buffer =
                       IF Len(sockets[i].rx_buffer) < sockets[i].rxcap
                       THEN Append(sockets[i].rx_buffer, ret'.val)
                       ELSE sockets[i].rx_buffer)
            /\ (ret'.op = "recv" =>
                  IF sockets[i].rx_buffer = <<>>
                  THEN ret'.res = "Exhausted" /\ sockets' = sockets
                  ELSE /\ ret'.res = "Ok"
                       /\ ret'.val = Head(sockets[i].rx_buffer)
                       /\ sockets'[i].rx_buffer = Tail(sockets[i].rx_buffer)) ]_vars

\* C8: peek and peek_slice leave the socket as it was; on an empty ring both
\* return Exhausted; peek returns the oldest payload; peek_slice with a slice
\* too short returns Truncated and leaves the slice untouched, otherwise it
\* copies the oldest payload; a recv that follows returns that same payload.
PeekKeepsPacket ==
    [][ LET i == ret'.sock
        IN  /\ (ret'.op \in {"peek", "peek_slice"} =>
                  /\ sockets' = sockets
                  /\ (sockets[i].rx_buffer = <<>> => ret'.res = "Exhausted"))
            /\ (ret'.op = "peek" /\ sockets[i].rx_buffer # <<>> =>
                  ret'.res = "Ok" /\ ret'.val = Head(sockets[i].rx_buffer))
            /\ (ret'.op = "peek_slice" /\ sockets[i].rx_buffer # <<>> =>
                  LET oldest == Head(sockets[i].rx_buffer)
                  IN  IF Len(data') < Len(oldest)
                      THEN ret'.res = "Truncated" /\ data' = Fill(Len(data'), Filler)
                      ELSE /\ ret'.res = "Ok" /\ ret'.len = Len(oldest)
                           /\ SubSeq(data', 1, Len(oldest)) = oldest)
            /\ (ret.op = "peek" /\ ret.res = "Ok" /\ ret'.op = "recv" =>
                  ret'.res = "Ok" /\ ret'.val = ret.val)
            /\ (ret.op = "peek_slice" /\ ret.res = "Ok" /\ ret'.op = "recv" =>
                  ret'.res = "Ok" /\ ret'.val = SubSeq(data, 1, ret.len))
            /\ (ret.op = "peek_slice" /\ ret.res = "Truncated" /\ ret'.op = "recv" =>
                  ret'.res = "Ok" /\ Len(ret'.val) > Len(data)) ]_vars

\* C8 witness: a peek_slice was refused as Truncated and the packet is still queued
PeekSliceTruncated ==
    /\ ret.op = "peek_slice" /\ ret.res = "Truncated"
    /\ Len(sockets[1].rx_buffer) = 2 /\ Len(data) < Len(sockets[1].rx_buffer[1])
    /\ data = Fill(Len(data), Filler)

(***************************************************************************)
(* Properties of the wire codecs.                                          *)
(***************************************************************************)
\* C9: once set_src_addr, set_priority, set_rtr and the payload write have
\* all been applied, src_addr, priority, is_rtr and payload read back the
\* values that were written.
FrameRoundTrip ==
    wdone = FrameSetters =>
        /\ src_addr(buffer) = wargs.addr
        /\ priority(buffer) = wargs.priority
        /\ is_rtr(buffer) = wargs.rtr
        /\ frame_payload(buffer) = wargs.payload

\* C10: each of set_opcode and set_payload_len leaves the other field of the
\* leading octet as it was, and after either or both, opcode() and
\* payload_len() read back what was written.
PacketHeaderRoundTrip ==
    [][ /\ ("opcode" \in wdone' /\ "opcode" \notin wdone =>
              (packet'[1] \div 32) = (packet[1] \div 32))
        /\ ("payload_len" \in wdone' /\ "payload_len" \notin wdone =>
              (packet'[1] % 32) = (packet[1] % 32))
        /\ ("opcode" \in wdone' => opcode(packet') = wargs.opcode)
        /\ ("payload_len" \in wdone' => payload_len(packet') = wargs.payload_len) ]_vars

\* C10 witness: both setters have run and the leading octet packs the pair written
PacketHeaderWritten ==
    /\ wdone = {"opcode", "payload_len"}
    /\ wargs.opcode = 21 /\ wargs.payload_len = 2
    /\ packet = <<85>>

(***************************************************************************)
(* CanIdSpec: a bus address built from any octet, directly and through     *)
(* the source-address accessor of a frame whose header holds that octet.   *)
(***************************************************************************)
Octets == 0..255
HeaderHighOctets == {0, 128, 255}

CanIdInit ==
    /\ wargs \in [octet : Octets, high : HeaderHighOctets]
    /\ buffer = <<>> /\ packet = <<>> /\ wdone = {}
    /\ sockets = <<>> /\ ret = NoRet /\ data = <<>>
    /\ dev_rx = <<>> /\ dev_txcap = 0 /\ pc = "idle" /\ poll = PollIdle
    /\ call = NoCall /\ services = <<>> /\ lower = <<>> /\ lower_rx = <<>> /\ config = NoConfig

\* VlcbCanId::from_bytes(&[octet])
CanIdFromBytes ==
    /\ call.op # "from_bytes"
    /\ call' = [op |-> "from_bytes", val |-> VlcbCanId_from_bytes(wargs.octet)]
    /\ UNCHANGED <<wireVars, sockVars, ifaceVars, services, lower, lower_rx, config>>

\* Frame::src_addr() on a frame whose header is <<high, octet>>
FrameSrcAddr ==
    /\ call.op # "src_addr"
    /\ call' = [op |-> "src_addr", val |-> src_addr(<<wargs.high, wargs.octet>>)]
    /\ UNCHANGED <<wireVars, sockVars, ifaceVars, services, lower, lower_rx, config>>

CanIdNext == CanIdFromBytes \/ FrameSrcAddr

CanIdSpec == CanIdInit /\ [][CanIdNext]_vars

\* C11: a bus address built from any octet stores the octet with bit 7
\* cleared (the input modulo 128), and the source address read from a frame
\* is never above 0x7F whatever the two header octets are.
CanIdMasked ==
    /\ call.op = "from_bytes" => call.val = wargs.octet % 128 /\ call.val \div 128 = 0
    /\ call.op = "src_addr" => call.val <= 127 /\ call.val = wargs.octet % 128

\* C11 witness: the octet 0xFF was converted and 0x7F was stored
CanIdFromAllOnes ==
    call.op = "from_bytes" /\ wargs.octet = 255 /\ call.val = 127

(***************************************************************************)
(* core/src/cbus.rs: EventId, a record [data : 4 octets, is_short].        *)
(***************************************************************************)
EVENT_SIZE == 4

\* EventId::from_bytes: copy_from_slice panics unless data is 4 octets long
EventId_from_bytes(d) ==
    IF Len(d) # EVENT_SIZE THEN "panic"
    ELSE [data |-> d, is_short |-> FALSE]

\* EventId::short_from_bytes: bytes[2..].copy_from_slice(&data[2..]), the
\* node number octets stay zero
EventId_short_from_bytes(d) ==
    IF Len(d) # EVENT_SIZE THEN "panic"
    ELSE [data |-> <<0, 0, d[3], d[4]>>, is_short |-> TRUE]

\* a plausible slip: equality written by hand over the octets only
EventId_eq_octets(a, b) == a.data = b.data

\* #[derive(PartialEq, Eq)] on EventId: field by field, data then is_short
EventId_eq(a, b) == a.data = b.data /\ a.is_short = b.is_short

(***************************************************************************)
(* EventSpec: two events built from octets, each as a long or as a short   *)
(* event, then compared.                                                   *)
(***************************************************************************)
EventBytes == { <<0, 0, 1, 2>>, <<7, 9, 1, 2>>, <<0, 0, 1, 3>>, <<7, 9, 0, 0>> }

EventInit ==
    /\ wargs \in [a : EventBytes, a_short : BOOLEAN, b : EventBytes, b_short : BOOLEAN]
    /\ buffer = <<>> /\ packet = <<>> /\ wdone = {}
    /\ sockets = <<>> /\ ret = NoRet /\ data = <<>>
    /\ dev_rx = <<>> /\ dev_txcap = 0 /\ pc = "idle" /\ poll = PollIdle
    /\ call = NoCall /\ services = <<>> /\ lower = <<>> /\ lower_rx = <<>> /\ config = NoConfig

\* the two constructor calls
EventBuild ==
    /\ call.op = "none"
    /\ call' = [op |-> "built",
                a |-> IF wargs.a_short THEN EventId_short_from_bytes(wargs.a)
                                       ELSE EventId_from_bytes(wargs.a),
                b |-> IF wargs.b_short THEN EventId_short_from_bytes(wargs.b)
                                       ELSE EventId_from_bytes(wargs.b)]
    /\ UNCHANGED <<wireVars, sockVars, ifaceVars, services, lower, lower_rx, config>>

\* a == b
EventCompare ==
    /\ call.op = "built"
    /\ call' = [op |-> "eq", a |-> call.a, b |-> call.b, val |-> EventId_eq(call.a, call.b)]
    /\ UNCHANGED <<wireVars, sockVars, ifaceVars, services, lower, lower_rx, config>>

NODENUM_SIZE == 2

\* EventId::from_node_and_id: bytes = [0; EVENT_SIZE];
\* bytes.copy_from_slice(node_num.as_bytes()) panics unless both slices have
\* the same length; then write_u16(&mut bytes[2..], evt_id)
EventId_from_node_and_id(node_num, evt_id, short) ==
    LET bytes == Fill(EVENT_SIZE, 0)
    IN  IF Len(bytes) # Len(node_num) THEN [res |-> "panic"]
        ELSE [res |-> "Ok",
              event |-> [data |-> <<node_num[1], node_num[2], evt_id \div 256, evt_id % 256>>,
                         is_short |-> short]]

\* EventId::node_num
node_num(e) == SubSeq(e.data, 1, NODENUM_SIZE)

\* EventId::event_num
event_num(e) == read_u16(SubSeq(e.data, 3, 4))

\* from_node_and_id(nn, id, f) with nn the first two octets of wargs.a and
\* id the last two octets of wargs.b
EventFromNodeAndId ==
    /\ call.op = "none"
    /\ LET nn == SubSeq(wargs.a, 1, NODENUM_SIZE)
           id == read_u16(SubSeq(wargs.b, 3, 4))
           r == EventId_from_node_and_id(nn, id, wargs.a_short)
       IN  call' = [op |-> "from_node_and_id", node_num |-> nn, evt_id |-> id,
                    short |-> wargs.a_short, made |-> r]
    /\ UNCHANGED <<wireVars, sockVars, ifaceVars, services, lower, lower_rx, config>>

EventNext == EventBuild \/ EventCompare \/ EventFromNodeAndId

EventSpec == EventInit /\ [][EventNext]_vars

Malformed(frame) ==
    \/ Frame_check_len(frame) = "Err"
    \/ Packet_check_len(frame_payload(frame)) = "Err"

\* C13: a received buffer that fails frame or packet validation is
\* discarded by the ingress pass: the pass does not abort and stays in its
\* loop with the next buffer at the head, no socket changes, no transmit
\* token is used, the consumed token is counted as progress, and a call
\* that returns after consuming such a buffer returns true.
MalformedDiscarded ==
    /\ [][ (pc = "ingress" /\ dev_rx # <<>> /\ Malformed(Head(dev_rx))) =>
             /\ pc' = "ingress"
             /\ dev_rx' = Tail(dev_rx)
             /\ sockets' = sockets
             /\ dev_txcap' = dev_txcap /\ poll'.tx_round = poll.tx_round
             /\ poll'.processed_any = TRUE
             /\ poll'.rx_round = poll.rx_round + 1 ]_vars
    /\ [](PollReturned /\ LogRx(poll.log) > 0 => poll.result = "true")

\* C13 witness: with a socket registered, one malformed buffer has been
\* discarded and the pass is about to take the next received buffer
MalformedThenNext ==
    /\ pc = "ingress" /\ poll.rx_round = 1 /\ poll.processed_any
    /\ dev_rx # <<>> /\ sockets # <<>>

(***************************************************************************)
(* phy/can.rs: the embedded-can device adapter and its transmit token.     *)
(***************************************************************************)
PHY_HEADER_LEN == 2
MTU == 8
FRAME_LEN == PHY_HEADER_LEN + MTU

\* heapless Vec::new(): a vector of capacity FRAME_LEN and length 0
Vec_new == <<>>

\* into_can_frame: read_u16 needs 2 octets, StandardId::new(..).unwrap()
\* needs an 11-bit identifier; a remote frame carries no data
into_can_frame(buf) ==
    IF Len(buf) < PHY_HEADER_LEN THEN [res |-> "panic"]
    ELSE LET header == read_u16(buf)
             id == And16(header, Not16(HEADER_RTR_MASK))
         IN  IF id > 2047 THEN [res |-> "panic"]
             ELSE IF And16(header, HEADER_RTR_MASK) # 0
                  THEN [res |-> "Ok", id |-> id, remote |-> TRUE, data |-> <<>>]
                  ELSE [res |-> "Ok", id |-> id, remote |-> FALSE,
                        data |-> SubSeq(buf, PHY_HEADER_LEN + 1, Len(buf))]

\* TxToken::consume(len, f) where f fills the slice it is given with the
\* octet fill, and the driver answers the transmit with answer:
\*   let mut buffer = Vec::new(); let result = f(&mut buffer[..len]);
\*   match lower.transmit(&into_can_frame(&buffer[..len])) { .. }
\* Slicing a vector of length 0 up to len panics when len > 0.
\* Yields [res, called, given, written, attempts, sent : the frames handed
\* to the driver].
TxToken_consume(len, fill, answer) ==
    LET vec == Vec_new
        failed == [res |-> "panic", called |-> FALSE, given |-> 0, written |-> <<>>,
                   attempts |-> 0, sent |-> <<>>]
    IN  IF len > Len(vec) THEN failed
        ELSE LET written == Fill(len, fill)
                 frame == into_can_frame(written)
                 ran == [failed EXCEPT !.called = TRUE, !.given = len, !.written = written]
             IN  IF frame.res = "panic" THEN ran
                 ELSE IF answer = "Other" THEN [ran EXCEPT !.attempts = 1]
                 ELSE [ran EXCEPT !.res = "Ok", !.attempts = 1,
                                  !.sent = IF answer = "Ok" THEN <<frame>> ELSE <<>>]

(***************************************************************************)
(* TokenSpec: one transmit token consumed with a requested length, a       *)
(* callback that fills its slice, and a driver that accepts the frame or   *)
(* answers WouldBlock.                                                     *)
(***************************************************************************)
CallbackOctets == {0, 1, 5, 127}
DriverAnswers == {"Ok", "WouldBlock"}

TokenInit ==
    /\ wargs \in [len : 0..FRAME_LEN, fill : CallbackOctets, answer : DriverAnswers]
    /\ buffer = <<>> /\ packet = <<>> /\ wdone = {}
    /\ sockets = <<>> /\ ret = NoRet /\ data = <<>>
    /\ dev_rx = <<>> /\ dev_txcap = 0 /\ pc = "idle" /\ poll = PollIdle
    /\ call = NoCall /\ services = <<>> /\ lower = <<>> /\ lower_rx = <<>> /\ config = NoConfig

TxConsume ==
    /\ call.op = "none"
    /\ LET r == TxToken_consume(wargs.len, wargs.fill, wargs.answer)
       IN  /\ call' = [op |-> "consume", res |-> r.res, called |-> r.called,
                       given |-> r.given, written |-> r.written, attempts |-> r.attempts]
           /\ lower' = lower \o r.sent
    /\ UNCHANGED <<wireVars, sockVars, ifaceVars, services, lower_rx, config>>

TokenNext == TxConsume

TokenSpec == TokenInit /\ [][TokenNext]_vars

\* C14: consuming a transmit token with a requested length of 0 to 10
\* runs the callback on a writable slice of exactly that many octets and
\* then attempts, once, to send the octets the callback wrote; the call
\* does not fail before the callback has run.
ConsumeSendsWritten ==
    call.op = "consume" =>
        /\ call.called
        /\ call.given = wargs.len
        /\ call.written = Fill(wargs.len, wargs.fill)
        /\ call.attempts = 1

(***************************************************************************)
(* wire/vlcb.rs: Repr, the parsed form of a packet header.  The opcode     *)
(* enumeration CbusOpCodes comes from the vlcb_defs crate; of its values   *)
(* only those below 32 can come out of the 5-bit opcode field.             *)
(***************************************************************************)
\* the values below 32 that CbusOpCodes enumerates: ACK, NAK, HLT, BON, TOF,
\* TON, ESTOP, ARST, RTOF, RTON, RESTP, RSTAT, QNN, RQNP, RQMN
RecognizedOpcodes == (0..10) \cup {12, 13, 16, 17}

\* CbusOpCodes::DTXC
DTXC == 233

\* CbusOpCodes::try_from(value)
CbusOpCodes_try_from(value) ==
    IF value \in RecognizedOpcodes THEN [res |-> "Ok", val |-> value] ELSE [res |-> "Err"]

\* Packet::next_header
next_header(buf) == IF opcode(buf) = DTXC THEN "LongMsg" ELSE "Module"

\* Repr::parse: Ok(Repr { data_len, opcode: try_from(..).unwrap(), next_header });
\* the unwrap panics on Err and the function has no Err return of its own
Repr_parse(buf) ==
    LET op == CbusOpCodes_try_from(opcode(buf))
    IN  IF op.res = "Err" THEN [res |-> "panic"]
        ELSE [res |-> "Ok", data_len |-> payload_len(buf), opcode |-> op.val,
              next_header |-> next_header(buf)]

(***************************************************************************)
(* ReprSpec: a packet with any leading octet is parsed.                    *)
(***************************************************************************)
ReprInit ==
    /\ \E b \in Octets : packet = <<b>>
    /\ buffer = <<>> /\ wargs = <<>> /\ wdone = {}
    /\ sockets = <<>> /\ ret = NoRet /\ data = <<>>
    /\ dev_rx = <<>> /\ dev_txcap = 0 /\ pc = "idle" /\ poll = PollIdle
    /\ call = NoCall /\ services = <<>> /\ lower = <<>> /\ lower_rx = <<>> /\ config = NoConfig

ReprParse ==
    /\ call.op = "none"
    /\ call' = [op |-> "parse", repr |-> Repr_parse(packet)]
    /\ UNCHANGED <<wireVars, sockVars, ifaceVars, services, lower, lower_rx, config>>

\* Packet::next_header on the same packet
PacketNextHeader ==
    /\ call.op = "none"
    /\ call' = [op |-> "next_header", val |-> next_header(packet)]
    /\ UNCHANGED <<wireVars, sockVars, ifaceVars, services, lower, lower_rx, config>>

ReprNext == ReprParse \/ PacketNextHeader

ReprSpec == ReprInit /\ [][ReprNext]_vars

\* C15: parsing never panics; a packet whose opcode is not a recognized
\* value yields a framing error, and a packet with a recognized opcode
\* yields Ok with data_len = payload_len(), the decoded opcode and
\* next_header().
ParseRejectsUnknownOpcode ==
    call.op = "parse" =>
        /\ call.repr.res # "panic"
        /\ IF opcode(packet) \in RecognizedOpcodes
           THEN /\ call.repr.res = "Ok"
                /\ call.repr.data_len = payload_len(packet)
                /\ call.repr.opcode = opcode(packet)
                /\ call.repr.next_header = next_header(packet)
           ELSE call.repr.res = "Err"

(***************************************************************************)
(* wire/can.rs: Frame::new_checked and the reads the accessors make.       *)
(***************************************************************************)
\* Frame::new_checked: new_unchecked, then check_len()?
Frame_new_checked(buf) ==
    IF Frame_check_len(buf) = "Err" THEN [res |-> "Err"] ELSE [res |-> "Ok", frame |-> buf]

FrameAccessors == {"src_addr", "priority", "is_rtr", "payload"}

\* the number of octets an accessor needs for its index expression not to
\* go out of range: buffer[ID_CANID], buffer[ID] = [0..2], data[PAYLOAD] = [2..]
FieldReach(accessor) ==
    IF accessor = "src_addr" THEN ID_CANID ELSE CAN_HEADER_LEN

\* the accessors that panic on this buffer
AccessorsPanicking(buf) == { a \in FrameAccessors : Len(buf) < FieldReach(a) }

(***************************************************************************)
(* FrameCheckSpec: buffers of every length around the accepted range are   *)
(* validated and, when accepted, read through every accessor.              *)
(***************************************************************************)
MaxFrameBuf == 12
FillOctets == {0, 1, 127, 128, 255}

FrameCheckInit ==
    /\ \E n \in 0..MaxFrameBuf, v \in FillOctets : buffer = Fill(n, v)
    /\ packet = <<>> /\ wargs = <<>> /\ wdone = {}
    /\ sockets = <<>> /\ ret = NoRet /\ data = <<>>
    /\ dev_rx = <<>> /\ dev_txcap = 0 /\ pc = "idle" /\ poll = PollIdle
    /\ call = NoCall /\ services = <<>> /\ lower = <<>> /\ lower_rx = <<>> /\ config = NoConfig

FrameNewChecked ==
    /\ call.op = "none"
    /\ call' = [op |-> "new_checked", res |-> Frame_new_checked(buffer).res]
    /\ UNCHANGED <<wireVars, sockVars, ifaceVars, services, lower, lower_rx, config>>

\* src_addr(), priority(), is_rtr() and payload() on the accepted frame
FrameAccess ==
    /\ call.op = "new_checked" /\ call.res = "Ok"
    /\ LET frame == Frame_new_checked(buffer).frame
           panicking == AccessorsPanicking(frame)
       IN  call' = [op |-> "accessed", res |-> "Ok", panicking |-> panicking,
                    payload |-> IF "payload" \in panicking THEN <<>> ELSE frame_payload(frame),
                    src_addr |-> IF "src_addr" \in panicking THEN 0 ELSE src_addr(frame)]
    /\ UNCHANGED <<wireVars, sockVars, ifaceVars, services, lower, lower_rx, config>>

FrameCheckNext == FrameNewChecked \/ FrameAccess

FrameCheckSpec == FrameCheckInit /\ [][FrameCheckNext]_vars

\* C16: new_checked returns a framing error exactly when the buffer is
\* shorter than the 2-octet header or carries more than 8 payload octets,
\* and succeeds for every length from 2 to 10; on an accepted buffer no
\* accessor panics and payload() has the buffer length minus 2.
FrameLengthChecked ==
    /\ call.op \in {"new_checked", "accessed"} =>
          /\ (call.res = "Err") = (Len(buffer) < 2 \/ Len(buffer) - 2 > 8)
          /\ (Len(buffer) \in 2..10) => call.res = "Ok"
    /\ call.op = "accessed" =>
          /\ call.panicking = {}
          /\ Len(call.payload) = Len(buffer) - 2
          /\ call.payload = SubSeq(buffer, 3, Len(buffer))

\* C16 witness: a buffer of the largest accepted length, 10 octets, was
\* accepted and read, its payload being 8 octets
FrameLongestAccepted ==
    call.op = "accessed" /\ Len(buffer) = 10 /\ Len(call.payload) = 8

(***************************************************************************)
(* wire/vlcb.rs: Packet::new_checked and the payload view.                 *)
(***************************************************************************)
\* Packet::header_len
header_len(buf) == VLCB_HEADER_LEN

\* Packet::new_checked: new_unchecked, then check_len()?
Packet_new_checked(buf) ==
    IF Packet_check_len(buf) = "Err" THEN [res |-> "Err"] ELSE [res |-> "Ok", packet |-> buf]

\* Packet::payload and Packet::payload_mut: data[header_len..total_len];
\* a range whose start lies beyond its end, or whose end lies beyond the
\* buffer, panics
packet_payload(buf) ==
    IF header_len(buf) > total_len(buf) \/ total_len(buf) > Len(buf)
    THEN [res |-> "panic", val |-> <<>>]
    ELSE [res |-> "Ok", val |-> SubSeq(buf, header_len(buf) + 1, total_len(buf))]

(***************************************************************************)
(* PacketCheckSpec: buffers with every declared payload length and every   *)
(* actual length around it are validated and, when accepted, their         *)
(* payload is viewed.                                                      *)
(***************************************************************************)
MaxPacketBuf == 9
PacketTailOctet == 170
CheckedOpcodes == {0, 21}

PacketCheckInit ==
    /\ \/ packet = <<>>
       \/ \E l \in PayloadLens, o \in CheckedOpcodes, n \in 1..MaxPacketBuf :
             packet = <<l * 32 + o>> \o Fill(n - 1, PacketTailOctet)
    /\ buffer = <<>> /\ wargs = <<>> /\ wdone = {}
    /\ sockets = <<>> /\ ret = NoRet /\ data = <<>>
    /\ dev_rx = <<>> /\ dev_txcap = 0 /\ pc = "idle" /\ poll = PollIdle
    /\ call = NoCall /\ services = <<>> /\ lower = <<>> /\ lower_rx = <<>> /\ config = NoConfig

\* new_checked, then payload() on the accepted packet
PacketNewChecked ==
    /\ call.op = "none"
    /\ LET r == Packet_new_checked(packet)
       IN  call' = [op |-> "new_checked", res |-> r.res,
                    payload |-> IF r.res = "Ok" THEN packet_payload(r.packet)
                                ELSE [res |-> "none", val |-> <<>>]]
    /\ UNCHANGED <<wireVars, sockVars, ifaceVars, services, lower, lower_rx, config>>

PacketCheckNext == PacketNewChecked

PacketCheckSpec == PacketCheckInit /\ [][PacketCheckNext]_vars

\* C17: new_checked accepts a buffer exactly when its length is at least
\* the 1-octet header plus the declared payload length (a declared length
\* of 0 included) and rejects it otherwise, an empty buffer being rejected
\* without a panic; on an accepted buffer payload() is exactly the
\* payload_len() octets that follow the header.
PacketLengthChecked ==
    call.op = "new_checked" =>
        /\ (call.res = "Ok") = (Len(packet) >= 1 /\ Len(packet) >= 1 + payload_len(packet))
        /\ call.res = "Ok" =>
              /\ call.payload.res = "Ok"
              /\ call.payload.val = SubSeq(packet, 2, 1 + payload_len(packet))

(***************************************************************************)
(* module/service_set.rs: ServiceSet over a ManagedSlice of slots.  A slot *)
(* is "None" or the service it holds; wargs.owned tells whether the        *)
(* slice is ManagedSlice::Owned (growable) or Borrowed (fixed).            *)
(***************************************************************************)
EmptySlots(slots) == { i \in 1..Len(slots) : slots[i] = "None" }

\* a plausible slip: the scan keeps going and the last empty slot is taken
ServiceSet_add_last(slots, owned, service) ==
    IF EmptySlots(slots) # {}
    THEN LET i == CHOOSE j \in EmptySlots(slots) : \A k \in EmptySlots(slots) : k <= j
         IN  [res |-> "Ok", slots |-> [slots EXCEPT ![i] = service]]
    ELSE IF owned THEN [res |-> "Ok", slots |-> Append(slots, service)]
    ELSE [res |-> "panic", slots |-> slots]

\* ServiceSet::add: the first slot whose inner is None takes the service;
\* with none left a Borrowed slice panics and an Owned one pushes a slot
ServiceSet_add(slots, owned, service) ==
    IF EmptySlots(slots) # {}
    THEN LET i == CHOOSE j \in EmptySlots(slots) : \A k \in EmptySlots(slots) : j <= k
         IN  [res |-> "Ok", slots |-> [slots EXCEPT ![i] = service]]
    ELSE IF owned THEN [res |-> "Ok", slots |-> Append(slots, service)]
    ELSE [res |-> "panic", slots |-> slots]

\* ServiceSet::items / items_mut / iter / iter_mut: filter_map over the slots
ServiceSet_items(slots) == SelectSeq(slots, LAMBDA x : x # "None")

(***************************************************************************)
(* ServiceSpec: a service set created over empty storage, fixed or         *)
(* growable, to which services are added and which is iterated.            *)
(***************************************************************************)
MaxSlots == 3
Services == {"mns", "nv", "evt"}

ServiceInit ==
    /\ wargs \in [owned : BOOLEAN]
    /\ \E n \in 0..MaxSlots : services = Fill(n, "None")
    /\ buffer = <<>> /\ packet = <<>> /\ wdone = {}
    /\ sockets = <<>> /\ ret = NoRet /\ data = <<>>
    /\ dev_rx = <<>> /\ dev_txcap = 0 /\ pc = "idle" /\ poll = PollIdle
    /\ call = NoCall /\ lower = <<>> /\ lower_rx = <<>> /\ config = NoConfig

\* add(service); the growable slice is kept within MaxSlots slots
ServiceAdd(service) ==
    /\ pc = "idle"
    /\ EmptySlots(services) # {} \/ ~wargs.owned \/ Len(services) < MaxSlots
    /\ LET r == ServiceSet_add(services, wargs.owned, service)
       IN  /\ services' = r.slots
           /\ call' = [op |-> "add", res |-> r.res, service |-> service, before |-> services]
           /\ pc' = IF r.res = "panic" THEN "panicked" ELSE pc
    /\ UNCHANGED <<wireVars, sockVars, dev_rx, dev_txcap, poll, lower, lower_rx, config>>

\* items().collect()
ServiceItems ==
    /\ pc = "idle"
    /\ call.op # "items"
    /\ call' = [op |-> "items", res |-> "Ok", val |-> ServiceSet_items(services)]
    /\ UNCHANGED <<wireVars, sockVars, ifaceVars, services, lower, lower_rx, config>>

ServiceNext == (\E service \in Services : ServiceAdd(service)) \/ ServiceItems

ServiceSpec == ServiceInit /\ [][ServiceNext]_vars

\* number of occupied slots
Live(slots) == Cardinality({ i \in 1..Len(slots) : slots[i] # "None" })

\* index of the k-th occupied slot
NthOccupied(slots, k) ==
    CHOOSE i \in 1..Len(slots) :
        slots[i] # "None" /\ Cardinality({ j \in 1..(i - 1) : slots[j] # "None" }) = k - 1

\* C18: add puts the item into the first empty slot if there is one,
\* otherwise grows a growable collection by one slot, otherwise (fixed and
\* full) panics; a successful add raises the number of live items by one
\* and leaves every stored item as it was; iteration yields exactly the
\* occupied slots in slot order.
SlotAppend ==
    /\ call.op = "add" =>
          LET b == call.before
              holes == { i \in 1..Len(b) : b[i] = "None" }
          IN  /\ IF holes # {}
                 THEN /\ call.res = "Ok" /\ Len(services) = Len(b)
                      /\ \E i \in holes :
                            /\ \A j \in holes : i <= j
                            /\ services[i] = call.service
                 ELSE IF wargs.owned
                 THEN /\ call.res = "Ok" /\ Len(services) = Len(b) + 1
                      /\ services[Len(services)] = call.service
                 ELSE call.res = "panic" /\ pc = "panicked" /\ services = b
              /\ call.res = "Ok" =>
                    /\ Live(services) = Live(b) + 1
                    /\ \A i \in 1..Len(b) : b[i] # "None" => services[i] = b[i]
    /\ call.op = "items" =>
          /\ Len(call.val) = Live(services)
          /\ \A k \in 1..Len(call.val) : call.val[k] = services[NthOccupied(services, k)]

\* C18 witness: an add took the first of two empty slots behind an
\* occupied one
SlotAppendFirstEmpty ==
    /\ call.op = "add" /\ call.res = "Ok"
    /\ Len(call.before) = 3 /\ call.before[1] # "None"
    /\ call.before[2] = "None" /\ call.before[3] = "None"
    /\ services[2] = call.service /\ services[3] = "None"

(***************************************************************************)
(* More properties of the module socket.                                   *)
(***************************************************************************)
\* C19: when the receive ring of a socket is full, the ingress handler
\* drops the incoming payload silently: it returns, the ring keeps its
\* queued packets in their order, and nothing fails.
ProcessDropsWhenFull ==
    [][ LET i == ret'.sock
        IN  (ret'.op = "process" /\ Len(sockets[i].rx_buffer) = sockets[i].rxcap) =>
               /\ ret'.res # "panic"
               /\ pc' = "idle"
               /\ sockets'[i].rx_buffer = sockets[i].rx_buffer ]_vars

\* C20: poll_at answers Now exactly when the transmit ring holds a packet
\* and Ingress exactly when it is empty, on the typed socket and on the
\* Socket enum that wraps it; it never answers with a Time hint.
PollAtHint ==
    ret.op \in {"poll_at", "Socket::poll_at"} =>
        /\ ret.res \in {"Now", "Ingress"}
        /\ (ret.res = "Now") = (sockets[ret.sock].tx_buffer # <<>>)
        /\ (ret.res = "Ingress") = (sockets[ret.sock].tx_buffer = <<>>)

(***************************************************************************)
(* Properties of the egress pass.                                          *)
(***************************************************************************)
\* C21: dispatch on a socket whose transmit ring is empty returns Ok, the
\* emitter is not run and no transmit token is requested; on a non-empty
\* ring exactly one entry, the oldest, leaves the ring for the emitter.
DispatchOldestOnly ==
    [][ (pc = "egress" /\ poll.item <= Len(sockets)) =>
           LET s == sockets[poll.item]
           IN  /\ pc' \in {"egress", "round_end"}
               /\ IF s.tx_buffer = <<>>
                  THEN /\ sockets' = sockets
                       /\ dev_txcap' = dev_txcap
                       /\ poll'.tx_round = poll.tx_round
                  ELSE /\ sockets'[poll.item].tx_buffer = Tail(s.tx_buffer)
                       /\ poll'.tx_round <= poll.tx_round + 1 ]_vars

(***************************************************************************)
(* The sub-protocol selector.                                              *)
(***************************************************************************)
\* the values opcode() can return over all leading octets
OpcodeRange == { opcode(<<b>>) : b \in Octets }

\* C22: next_header depends on the opcode value alone; exactly one
\* distinguished opcode value selects the long-message sub-protocol, every
\* other value selects the module sub-protocol, and the distinguished
\* value lies among the values opcode() can return.
LongMsgSelectable ==
    call.op = "next_header" =>
        /\ call.val = IF opcode(packet) = DTXC THEN "LongMsg" ELSE "Module"
        /\ \A b \in Octets : opcode(<<b>>) = opcode(packet) => next_header(<<b>>) = call.val
        /\ DTXC \in OpcodeRange

(***************************************************************************)
(* persistence/node_config.rs: NodeConfigStorage, the node variables.      *)
(* config.nvs is the array nvs; element i of the source is nvs[i + 1].     *)
(***************************************************************************)
NodeVarCount == 3
UNINITIALISED_VALUE == 255

\* NodeConfigStorage::default.  flags holds NodeFlags::bits(), events the
\* entries of the index map in its order, each [key, index, vars]
NodeConfigStorage_default ==
    [flags |-> 0, current_mode |-> "UNINITIALISED",
     nvs |-> Fill(NodeVarCount, UNINITIALISED_VALUE),
     can_id |-> 0, node_number |-> <<0, 0>>, events |-> <<>>, reset_flag |-> FALSE]

\* NodeConfigStorage::get_nv: self.nvs.get(index as usize).copied().ok_or(OutOfRange)
get_nv(cfg, index) ==
    IF index < Len(cfg.nvs)
    THEN [res |-> "Ok", val |-> cfg.nvs[index + 1]]
    ELSE [res |-> "OutOfRange", val |-> 0]

\* NodeConfigStorage::set_nv: self.nvs.get_mut(index as usize).map(|nv| *nv = value)
\*                                .ok_or(OutOfRange)
set_nv(cfg, index, value) ==
    IF index < Len(cfg.nvs)
    THEN [res |-> "Ok", cfg |-> [cfg EXCEPT !.nvs[index + 1] = value]]
    ELSE [res |-> "OutOfRange", cfg |-> cfg]

(***************************************************************************)
(* NvSpec: node variables read and written at indices in and around the    *)
(* array.                                                                  *)
(***************************************************************************)
NvIndices == 0..(NodeVarCount + 1)
NvValues == {0, 7}

NvInit ==
    /\ config = NodeConfigStorage_default
    /\ buffer = <<>> /\ packet = <<>> /\ wargs = <<>> /\ wdone = {}
    /\ sockets = <<>> /\ ret = NoRet /\ data = <<>>
    /\ dev_rx = <<>> /\ dev_txcap = 0 /\ pc = "idle" /\ poll = PollIdle
    /\ call = NoCall /\ services = <<>> /\ lower = <<>> /\ lower_rx = <<>>

GetNv(index) ==
    /\ LET r == get_nv(config, index)
       IN  call' = [op |-> "get_nv", index |-> index, value |-> 0, res |-> r.res,
                    val |-> r.val, before |-> config]
    /\ UNCHANGED <<wireVars, sockVars, ifaceVars, services, lower, lower_rx, config>>

SetNv(index, value) ==
    /\ LET r == set_nv(config, index, value)
       IN  /\ config' = r.cfg
           /\ call' = [op |-> "set_nv", index |-> index, value |-> value, res |-> r.res,
                       val |-> 0, before |-> config]
    /\ UNCHANGED <<wireVars, sockVars, ifaceVars, services, lower, lower_rx>>

NvNext ==
    \/ \E index \in NvIndices : GetNv(index)
    \/ \E index \in NvIndices, value \in NvValues : SetNv(index, value)

NvSpec == NvInit /\ [][NvNext]_vars

\* C23: node variables are indexed from 1: get_nv(i) and set_nv(i, v)
\* succeed exactly for 1 <= i <= NODE_VAR_COUNT and return OutOfRange with
\* the state unchanged for i = 0 and for i > NODE_VAR_COUNT; after a
\* successful set_nv(i, v), get_nv(i) returns v and every other variable
\* is as before.
NvIndexedFromOne ==
    call.op \in {"get_nv", "set_nv"} =>
        /\ (call.res = "Ok") = (1 <= call.index /\ call.index <= NodeVarCount)
        /\ call.res # "Ok" => call.res = "OutOfRange" /\ config = call.before
        /\ (call.op = "set_nv" /\ call.res = "Ok") =>
              /\ get_nv(config, call.index) = [res |-> "Ok", val |-> call.value]
              /\ \A j \in NvIndices \ {call.index} :
                    get_nv(config, j) = get_nv(call.before, j)

(***************************************************************************)
(* Events built from their parts.                                          *)
(***************************************************************************)
\* C24: from_node_and_id(nn, id, f) returns, without panicking, an event
\* whose node_num() is nn, whose event_num() is id and whose is_short() is
\* f; short_from_bytes yields an event whose node-number part is zero and
\* whose flag is short.
EventFromParts ==
    /\ call.op = "from_node_and_id" =>
          /\ call.made.res = "Ok"
          /\ node_num(call.made.event) = call.node_num
          /\ event_num(call.made.event) = call.evt_id
          /\ call.made.event.is_short = call.short
    /\ (call.op = "built" /\ wargs.a_short) =>
          node_num(call.a) = <<0, 0>> /\ call.a.is_short

(***************************************************************************)
(* Ordering and delivery properties of a poll round.                       *)
(***************************************************************************)
\* C25: a payload accepted by send is handed to a transmit token of the
\* device exactly once, in FIFO order, once a poll runs while the device
\* offers capacity: an egress pass entered with a pending payload and
\* device capacity gets a payload to the device.
AcceptedIsTransmitted ==
    (pc = "egress" /\ poll.item = 1 /\ Pending(sockets) > 0 /\ dev_txcap > 0)
        ~> (poll.tx_round > 0)

\* C26: an egress pass visits the live sockets in collection order and
\* drains at most one pending payload from each: every step of the pass
\* handles the next socket in order, takes the oldest payload of that
\* socket alone when the device has capacity, and moves on to the socket
\* after it.
EgressRoundRobin ==
    [][ (pc = "egress" /\ poll.item <= Len(sockets)) =>
           LET i == poll.item
           IN  /\ pc' \in {"egress", "round_end"}
               /\ pc' = "egress" => poll'.item = i + 1
               /\ \A j \in 1..Len(sockets) : j # i => sockets'[j] = sockets[j]
               /\ (sockets[i].tx_buffer # <<>> /\ dev_txcap > 0) =>
                     /\ sockets'[i].tx_buffer = Tail(sockets[i].tx_buffer)
                     /\ dev_txcap' = dev_txcap - 1
                     /\ pc' = "egress" ]_vars

\* C27: the ingress pass finishes with one received frame, reply included,
\* before it takes the next one; a frame for which no reply is produced
\* sends nothing; and the transmit rings of the sockets are left alone
\* until the pass has drained the device.
IngressReplyBeforeNext ==
    [][ (pc = "ingress" /\ dev_rx # <<>>) =>
           /\ pc' = "ingress"
           /\ dev_rx' = Tail(dev_rx)
           /\ process_can(Head(dev_rx)) = "None" => dev_txcap' = dev_txcap
           /\ \A j \in 1..Len(sockets) : sockets'[j].tx_buffer = sockets[j].tx_buffer ]_vars

(***************************************************************************)
(* phy/can.rs: the receive side of the embedded-can device adapter.  A     *)
(* driver frame is a record [ext, id, remote, data].                       *)
(***************************************************************************)
\* a plausible slip: the remote-request bit is left out of the header
from_can_frame_without_rtr(value) ==
    IF value.ext THEN [res |-> "None", buffer |-> <<>>]
    ELSE [res |-> "Some",
          buffer |-> write_u16(<<0, 0>>, value.id) \o
                     (IF ~value.remote /\ Len(value.data) > 0 THEN value.data ELSE <<>>)]

\* from_can_frame: an extended identifier yields None; a standard frame
\* yields the 2-octet header (identifier, bit 15 set for a remote frame)
\* followed by the data of a data frame
from_can_frame(value) ==
    IF value.ext THEN [res |-> "None", buffer |-> <<>>]
    ELSE LET header == IF value.remote THEN Or16(value.id, HEADER_RTR_MASK) ELSE value.id
         IN  [res |-> "Some",
              buffer |-> write_u16(<<0, 0>>, header) \o
                         (IF ~value.remote /\ Len(value.data) > 0 THEN value.data ELSE <<>>)]

\* EmbeddedCan::receive: lower.receive() answers WouldBlock on an empty
\* queue, otherwise hands over its oldest frame; the token pair exists only
\* if from_can_frame yields a buffer
EmbeddedCan_receive(queue) ==
    IF queue = <<>> THEN [res |-> "None", buffer |-> <<>>, queue |-> queue]
    ELSE LET conv == from_can_frame(Head(queue))
         IN  [res |-> conv.res, buffer |-> conv.buffer, queue |-> Tail(queue)]

(***************************************************************************)
(* DriverSpec: Interface::poll over the embedded-can device, with no       *)
(* socket registered; frames arrive in the driver between polls.           *)
(***************************************************************************)
DriverFrames ==
    { [ext |-> TRUE,  id |-> 5, remote |-> FALSE, data |-> <<33>>],
      [ext |-> FALSE, id |-> 5, remote |-> FALSE, data |-> <<>>],
      [ext |-> FALSE, id |-> 5, remote |-> FALSE, data |-> <<0>>],
      [ext |-> FALSE, id |-> 5, remote |-> TRUE,  data |-> <<>>],
      [ext |-> FALSE, id |-> 5, remote |-> FALSE, data |-> <<33>>] }

DriverInit ==
    /\ buffer = <<>> /\ packet = <<>> /\ wargs = <<>> /\ wdone = {}
    /\ sockets = <<>> /\ ret = NoRet /\ data = <<>>
    /\ dev_rx = <<>> /\ dev_txcap = 0 /\ pc = "idle" /\ poll = PollIdle
    /\ call = NoCall /\ services = <<>> /\ lower = <<>> /\ lower_rx = <<>> /\ config = NoConfig

\* the bus delivers a frame to the driver between polls
DriverFrameArrives(f) ==
    /\ pc = "idle"
    /\ Len(lower_rx) < MaxRx
    /\ lower_rx' = Append(lower_rx, f)
    /\ poll' = PollIdle
    /\ UNCHANGED <<wireVars, sockVars, dev_rx, dev_txcap, pc, call, services, lower, config>>

\* ingress_packets over EmbeddedCan: one evaluation of device.receive() and,
\* for Some, the consume of the receive token; None ends the pass
CanIngress ==
    /\ pc = "ingress"
    /\ LET r == EmbeddedCan_receive(lower_rx)
       IN  /\ lower_rx' = r.queue
           /\ IF r.res = "None"
              THEN /\ pc' = "egress"
                   /\ poll' = [poll EXCEPT !.did_something = @ \/ poll.processed_any,
                                           !.emitted_any = FALSE, !.item = 1]
              ELSE IF process_can(r.buffer) = "panic"
              THEN /\ pc' = "panicked"
                   /\ poll' = [poll EXCEPT !.where = "process_can"]
              ELSE /\ pc' = pc
                   /\ poll' = [poll EXCEPT !.processed_any = TRUE, !.rx_round = @ + 1]
    /\ UNCHANGED <<wireVars, sockVars, dev_rx, dev_txcap, call, services, lower, config>>

DriverNext ==
    \/ \E f \in DriverFrames : DriverFrameArrives(f)
    \/ PollStart
    \/ CanIngress
    \/ EgressDone
    \/ RoundEnd

DriverSpec == DriverInit /\ [][DriverNext]_vars

\* C28: an extended-identifier frame handed over by the driver is ignored
\* without stopping the drain: poll does not return while a standard frame
\* is still waiting in the driver.
ExtendedFrameIgnored ==
    PollReturned => \A k \in 1..Len(lower_rx) : lower_rx[k].ext

(***************************************************************************)
(* FrameEffectSpec: one header setter applied to a frame with arbitrary    *)
(* prior header contents; call.before keeps the buffer as it was.          *)
(***************************************************************************)
PriorHighOctets == {0, 1, 7, 85, 128, 135, 170, 255}
PriorLowOctets == {0, 42, 127, 128, 213, 255}
EffectPayloads == { <<>>, <<1, 2, 3, 4, 5, 6, 7, 8>> }

FrameEffectInit ==
    /\ wargs \in [addr : Addrs, priority : Priorities]
    /\ \E h \in PriorHighOctets, l \in PriorLowOctets, p \in EffectPayloads :
          buffer = <<h, l>> \o p
    /\ packet = <<>> /\ wdone = {}
    /\ sockets = <<>> /\ ret = NoRet /\ data = <<>>
    /\ dev_rx = <<>> /\ dev_txcap = 0 /\ pc = "idle" /\ poll = PollIdle
    /\ call = NoCall /\ services = <<>> /\ lower = <<>> /\ lower_rx = <<>> /\ config = NoConfig

EffectSetSrcAddr ==
    /\ call.op = "none"
    /\ buffer' = set_src_addr(buffer, wargs.addr)
    /\ call' = [op |-> "set_src_addr", before |-> buffer]
    /\ UNCHANGED <<packet, wargs, wdone, sockVars, ifaceVars, services, lower, lower_rx, config>>

EffectSetPriority ==
    /\ call.op = "none"
    /\ buffer' = set_priority(buffer, wargs.priority)
    /\ call' = [op |-> "set_priority", before |-> buffer]
    /\ UNCHANGED <<packet, wargs, wdone, sockVars, ifaceVars, services, lower, lower_rx, config>>

EffectSetRtr(value) ==
    /\ call.op = "none"
    /\ buffer' = set_rtr(buffer, value)
    /\ call' = [op |-> "set_rtr", before |-> buffer, value |-> value]
    /\ UNCHANGED <<packet, wargs, wdone, sockVars, ifaceVars, services, lower, lower_rx, config>>

FrameEffectNext ==
    \/ EffectSetSrcAddr
    \/ EffectSetPriority
    \/ \E value \in BOOLEAN : EffectSetRtr(value)

FrameEffectSpec == FrameEffectInit /\ [][FrameEffectNext]_vars

\* C29: set_src_addr changes only the 7 address bits of the low header
\* octet: bit 7 of that octet, the whole high octet and the payload stay
\* as they were, and src_addr() then returns the value written;
\* set_priority leaves src_addr(), is_rtr() and the payload as they were.
SetterFieldIsolation ==
    /\ call.op = "set_src_addr" =>
          /\ Len(buffer) = Len(call.before)
          /\ buffer[1] = call.before[1]
          /\ buffer[2] \div 128 = call.before[2] \div 128
          /\ buffer[2] % 128 = wargs.addr
          /\ SubSeq(buffer, 3, Len(buffer)) = SubSeq(call.before, 3, Len(call.before))
          /\ src_addr(buffer) = wargs.addr
    /\ call.op = "set_priority" =>
          /\ Len(buffer) = Len(call.before)
          /\ src_addr(buffer) = src_addr(call.before)
          /\ is_rtr(buffer) = is_rtr(call.before)
          /\ frame_payload(buffer) = frame_payload(call.before)

\* C29 witness: address 85 was written into a header whose octets were
\* both 0xFF; the low octet is now 0x80 + 85 and the high octet still 0xFF
SrcAddrWrittenOverOnes ==
    /\ call.op = "set_src_addr" /\ wargs.addr = 85
    /\ SubSeq(call.before, 1, 2) = <<255, 255>>
    /\ SubSeq(buffer, 1, 2) = <<255, 213>>

\* C30: after set_rtr(v), is_rtr() returns v, for both values of v and
\* every prior header: set_rtr(true) sets header bit 15, set_rtr(false)
\* clears it, and the other 15 header bits and the payload stay as they
\* were.
SetRtrReadsBack ==
    call.op = "set_rtr" =>
        /\ is_rtr(buffer) = call.value
        /\ buffer[1] \div 128 = (IF call.value THEN 1 ELSE 0)
        /\ buffer[1] % 128 = call.before[1] % 128
        /\ buffer[2] = call.before[2]
        /\ frame_payload(buffer) = frame_payload(call.before)

(***************************************************************************)
(* IsolationSpec: a socket set of two module sockets, each driven through  *)
(* its public methods between polls, with the interface polling them.      *)
(***************************************************************************)
\* what the receive rings hold when the sockets are registered
IsolationRx == { <<>>, << <<1>> >>, << <<2, 3>> >> }

\* the buffers the device hands out: one too short, one well-formed
IsolationFrames == { <<0>>, <<0, 5, 0>> }

IsolationInit ==
    /\ buffer = <<>> /\ packet = <<>> /\ wargs = <<>> /\ wdone = {}
    /\ \/ sockets = <<>>
       \/ \E rx1 \in IsolationRx, rx2 \in IsolationRx :
             sockets = << Socket_new(rx1, MaxCap, <<>>, MaxCap),
                          Socket_new(rx2, MaxCap, <<>>, MaxCap) >>
    /\ ret = NoRet
    /\ data = <<>>
    /\ dev_rx = <<>>
    /\ dev_txcap \in 0..MaxTxCap
    /\ pc = "idle"
    /\ poll = PollIdle
    /\ call = NoCall /\ services = <<>> /\ lower = <<>> /\ lower_rx = <<>> /\ config = NoConfig

IsolationNext ==
    \/ \E i \in 1..Len(sockets), d \in PollPayloads : SendSlice(i, d)
    \/ \E i \in 1..Len(sockets) : Recv(i)
    \/ \E i \in 1..Len(sockets), n \in 0..MaxBuf : RecvSlice(i, n)
    \/ \E i \in 1..Len(sockets) : Peek(i)
    \/ \E i \in 1..Len(sockets), n \in 0..MaxBuf : PeekSlice(i, n)
    \/ \E f \in IsolationFrames : FrameArrives(f)
    \/ PollStart
    \/ IngressReceive
    \/ IngressDone
    \/ EgressItem
    \/ EgressDone
    \/ RoundEnd

IsolationSpec == IsolationInit /\ [][IsolationNext]_vars

\* a call on socket ret'.sock was made in this step
SocketCalled == ret'.op \in {"send_slice", "recv", "recv_slice", "peek", "peek_slice"}

FrameIds == {0, 1, 5, 127, 255, 1024, 2047}
\* the data of the data frames converted: none, one octet, the full 8
FrameData == { <<>>, <<7>>, <<175, 0, 191, 0, 207, 0, 223, 0>> }

\* the driver frames: data frames with their data, remote frames without
ConversionFrames ==
    { [ext |-> e, id |-> i, remote |-> FALSE, data |-> d] :
          e \in BOOLEAN, i \in FrameIds, d \in FrameData }
    \cup { [ext |-> e, id |-> i, remote |-> TRUE, data |-> <<>>] :
          e \in BOOLEAN, i \in FrameIds }

ConversionInit ==
    /\ wargs \in ConversionFrames
    /\ buffer = <<>> /\ packet = <<>> /\ wdone = {}
    /\ sockets = <<>> /\ ret = NoRet /\ data = <<>>
    /\ dev_rx = <<>> /\ dev_txcap = 0 /\ pc = "idle" /\ poll = PollIdle
    /\ call = NoCall /\ services = <<>> /\ lower = <<>> /\ lower_rx = <<>> /\ config = NoConfig

\* from_can_frame(frame)
FromCanFrame ==
    /\ call.op = "none"
    /\ LET r == from_can_frame(wargs)
       IN  /\ call' = [op |-> "from_can_frame", res |-> r.res]
           /\ buffer' = r.buffer
    /\ UNCHANGED <<packet, wargs, wdone, sockVars, ifaceVars, services, lower, lower_rx, config>>

\* into_can_frame(&buffer) on the buffer from_can_frame produced
IntoCanFrame ==
    /\ call.op = "from_can_frame" /\ call.res = "Some"
    /\ call' = [op |-> "into_can_frame", frame |-> into_can_frame(buffer)]
    /\ UNCHANGED <<wireVars, sockVars, ifaceVars, services, lower, lower_rx, config>>

ConversionNext == FromCanFrame \/ IntoCanFrame

ConversionSpec == ConversionInit /\ [][ConversionNext]_vars

MaxNow == 7         \* latest timestamp a RequestEnumeration event carries

\* CanControlState::default()
CanControlState_Idle == [tag |-> "Idle"]

\* CanControlState::consume(self, evt)
consume(state, evt) ==
    IF state.tag = "Idle" /\ evt.tag = "RequestEnumeration"
    THEN [tag |-> "StartingEnumeration", started_at |-> evt.now]
    ELSE IF state.tag = "StartingEnumeration" /\ evt.tag = "Poll"
    THEN [tag |-> "Enumerating", started_at |-> state.started_at, responses |-> 1]
    ELSE state

CanControlInit ==
    /\ call = [op |-> "default", state |-> CanControlState_Idle,
               before |-> CanControlState_Idle, evt |-> [tag |-> "none"]]
    /\ buffer = <<>> /\ packet = <<>> /\ wargs = <<>> /\ wdone = {}
    /\ sockets = <<>> /\ ret = NoRet /\ data = <<>>
    /\ dev_rx = <<>> /\ dev_txcap = 0 /\ pc = "idle" /\ poll = PollIdle
    /\ services = <<>> /\ lower = <<>> /\ lower_rx = <<>> /\ config = NoConfig

\* the state consumes a Poll event
ConsumePoll ==
    /\ call' = [op |-> "consume", state |-> consume(call.state, [tag |-> "Poll"]),
                before |-> call.state, evt |-> [tag |-> "Poll"]]
    /\ UNCHANGED <<wireVars, sockVars, ifaceVars, services, lower, lower_rx, config>>

\* the state consumes a RequestEnumeration event raised at time now
ConsumeRequestEnumeration(now) ==
    /\ LET evt == [tag |-> "RequestEnumeration", now |-> now]
       IN  call' = [op |-> "consume", state |-> consume(call.state, evt),
                    before |-> call.state, evt |-> evt]
    /\ UNCHANGED <<wireVars, sockVars, ifaceVars, services, lower, lower_rx, config>>

CanControlNext ==
    \/ ConsumePoll
    \/ \E now \in 0..MaxNow : ConsumeRequestEnumeration(now)

CanControlSpec == CanControlInit /\ [][CanControlNext]_vars

\* the interface is polled again and again, so Poll events keep coming
CanControlFairSpec == CanControlSpec /\ WF_vars(ConsumePoll)

\* the transition half of C33: RequestEnumeration moves Idle to the
\* enumeration-requested state, Poll moves that state to Enumerating, and
\* every other pair of state and event leaves the state as it was
CanControlTransitions ==
    call.op = "consume" =>
        IF call.before.tag = "Idle" /\ call.evt.tag = "RequestEnumeration"
        THEN call.state.tag = "StartingEnumeration"
        ELSE IF call.before.tag = "StartingEnumeration" /\ call.evt.tag = "Poll"
        THEN call.state.tag = "Enumerating"
        ELSE call.state = call.before

\* C33: the control state follows the cycle idle -> enumeration-requested
\* -> enumerating -> idle: the two forward transitions are taken on
\* RequestEnumeration and Poll, every other pair leaves the state
\* unchanged, and from Enumerating the machine eventually returns to Idle.
EnumerationCycle ==
    /\ [](CanControlTransitions)
    /\ (call.state.tag = "Enumerating") ~> (call.state.tag = "Idle")

(***************************************************************************)
(* EmitSpec: a Repr emitted into a packet buffer, by Repr::emit with a     *)
(* writer that fills whatever slice it is handed or by                     *)
(* VlcbPacket::emit_payload, and the buffer parsed again.                  *)
(***************************************************************************)
\* Packet::payload_mut: &mut data[header_len()..total_len()], which panics
\* when the range is reversed or ends beyond the buffer
payload_mut(buf) ==
    IF header_len(buf) > total_len(buf) \/ total_len(buf) > Len(buf)
    THEN [res |-> "panic", len |-> 0]
    ELSE [res |-> "Ok", len |-> total_len(buf) - header_len(buf)]

\* Repr::emit(packet, emit_payload):
\*   packet.set_opcode(self.opcode.into());
\*   packet.set_payload_len(self.data_len);
\*   emit_payload(packet.payload_mut());
\* The writer either copies writer.payload into the slice it is handed
\* (copy_from_slice, which panics unless both have the same length) or
\* fills that slice, whatever its length, with the octet 7.
\* Yields [res, given : the length of the slice handed over, buf].
Repr_emit(repr, buf, writer) ==
    IF Len(buf) = 0 THEN [res |-> "panic", given |-> -1, buf |-> buf]
    ELSE LET headed == set_payload_len(set_opcode(buf, repr.opcode), repr.data_len)
             slice == payload_mut(headed)
         IN  IF slice.res = "panic" THEN [res |-> "panic", given |-> -1, buf |-> headed]
             ELSE IF writer.copy /\ slice.len # Len(writer.payload)
                  THEN [res |-> "panic", given |-> slice.len, buf |-> headed]
                  ELSE [res |-> "Ok", given |-> slice.len,
                        buf |-> SubSeq(headed, 1, header_len(headed))
                                \o (IF writer.copy THEN writer.payload
                                    ELSE Fill(slice.len, 7))
                                \o SubSeq(headed, header_len(headed) + slice.len + 1, Len(headed))]

\* VlcbPacket::emit_payload: the writer is |buf| buf.copy_from_slice(inner_payload)
emit_payload(repr, inner_payload, buf) ==
    Repr_emit(repr, buf, [copy |-> TRUE, payload |-> inner_payload])

\* the opcodes a Repr carries: the recognized 5-bit values and DTXC
ReprOpcodes == RecognizedOpcodes \cup {DTXC}

EmitInit ==
    /\ wargs \in [opcode : ReprOpcodes, data_len : PayloadLens]
    /\ \E n \in 1..MaxPacketBuf : packet = Fill(n, PacketTailOctet)
    /\ buffer = <<>> /\ wdone = {}
    /\ sockets = <<>> /\ ret = NoRet /\ data = <<>>
    /\ dev_rx = <<>> /\ dev_txcap = 0 /\ pc = "idle" /\ poll = PollIdle
    /\ call = NoCall /\ services = <<>> /\ lower = <<>> /\ lower_rx = <<>> /\ config = NoConfig

\* Repr::emit with a writer that fills the slice it is handed
ReprEmit ==
    /\ call.op = "none"
    /\ LET r == Repr_emit(wargs, packet, [copy |-> FALSE, payload |-> <<>>])
       IN  /\ call' = [op |-> "emit", res |-> r.res, given |-> r.given, room |-> Len(packet)]
           /\ packet' = r.buf
    /\ UNCHANGED <<buffer, wargs, wdone, sockVars, ifaceVars, services, lower, lower_rx, config>>

\* VlcbPacket::emit_payload with a Module payload of data_len octets
EmitPayload ==
    /\ call.op = "none"
    /\ LET r == emit_payload(wargs, Fill(wargs.data_len, 7), packet)
       IN  /\ call' = [op |-> "emit_payload", res |-> r.res, given |-> r.given,
                       room |-> Len(packet)]
           /\ packet' = r.buf
    /\ UNCHANGED <<buffer, wargs, wdone, sockVars, ifaceVars, services, lower, lower_rx, config>>

\* Repr::parse on the buffer a successful emit left
EmitThenParse ==
    /\ call.op \in {"emit", "emit_payload"} /\ call.res = "Ok"
    /\ call' = [op |-> "parse", repr |-> Repr_parse(packet), room |-> call.room]
    /\ UNCHANGED <<wireVars, sockVars, ifaceVars, services, lower, lower_rx, config>>

EmitNext == ReprEmit \/ EmitPayload \/ EmitThenParse

EmitSpec == EmitInit /\ [][EmitNext]_vars

\* C34: for every recognized opcode and every data_len from 0 to 7, with a
\* buffer that has room for the header and data_len octets, emit hands the
\* payload writer a slice of exactly data_len octets, emit_payload copies a
\* data_len-octet payload without a length mismatch, and parsing the
\* buffer afterwards returns the Repr that was emitted.
EmitParseRoundTrip ==
    /\ (call.op \in {"emit", "emit_payload"} /\ call.room >= VLCB_HEADER_LEN + wargs.data_len) =>
          /\ call.res = "Ok"
          /\ call.given = wargs.data_len
    /\ call.op = "parse" =>
          /\ call.repr.res = "Ok"
          /\ call.repr.opcode = wargs.opcode
          /\ call.repr.data_len = wargs.data_len

(***************************************************************************)
(* persistence/node_config.rs: NodeConfigStorage, the learned events.      *)
(* config.events is the heapless index map, as the sequence of its         *)
(* entries [key, index, vars]; no two entries have the same key.           *)
(***************************************************************************)
MaxEvents == 2       \* the generic parameter MAX_EVENTS
EventVarCount == 1   \* the generic parameter EVENT_VAR_COUNT

\* the position of the entry with key evt, 0 when there is none
EntryOf(events, evt) ==
    IF \E k \in 1..Len(events) : EventId_eq(events[k].key, evt)
    THEN CHOOSE k \in 1..Len(events) : EventId_eq(events[k].key, evt)
    ELSE 0

\* heapless IndexMap::insert: the value of a present key is replaced, a new
\* key is appended, and a new key on a full map is handed back as Err
IndexMap_insert(events, evt, item) ==
    LET k == EntryOf(events, evt)
        entry == [key |-> evt, index |-> item.index, vars |-> item.vars]
    IN  IF k # 0 THEN [res |-> "Ok", events |-> [events EXCEPT ![k] = entry]]
        ELSE IF Len(events) >= MaxEvents THEN [res |-> "Err", events |-> events]
        ELSE [res |-> "Ok", events |-> Append(events, entry)]

\* heapless IndexMap::remove (swap_remove): the last entry takes the place
\* of the removed one
IndexMap_remove(events, evt) ==
    LET k == EntryOf(events, evt)
        n == Len(events)
    IN  IF k = 0 THEN events
        ELSE IF k = n THEN SubSeq(events, 1, n - 1)
        ELSE SubSeq([events EXCEPT ![k] = events[n]], 1, n - 1)

\* heapless IndexMap as IndexMut<&Q>: self.get_mut(key).expect("key not found"),
\* so the assignment  map[key] = item  panics for a key that is not present
IndexMap_index_assign(events, evt, item) ==
    LET k == EntryOf(events, evt)
    IN  IF k = 0 THEN [res |-> "panic", events |-> events]
        ELSE [res |-> "Ok",
              events |-> [events EXCEPT ![k] = [key |-> evt, index |-> item.index,
                                                vars |-> item.vars]]]

\* NodeConfigStorage::set_event_item: self.events[&event_id] = item
set_event_item(cfg, event_id, item) ==
    LET r == IndexMap_index_assign(cfg.events, event_id, item)
    IN  [res |-> r.res, cfg |-> [cfg EXCEPT !.events = r.events]]

\* NodeConfigStorage::has_event_with_index
has_event_with_index(cfg, index) ==
    \E k \in 1..Len(cfg.events) : cfg.events[k].index = index

\* NodeConfigStorage::find_free_event_slot: None on a full map, otherwise
\* the first i from 0 upwards that no entry uses as its index
find_free_event_slot(cfg) ==
    IF Len(cfg.events) = MaxEvents THEN [res |-> "None", i |-> 0]
    ELSE IF Len(cfg.events) = 0 THEN [res |-> "Some", i |-> 0]
    ELSE [res |-> "Some",
          i |-> CHOOSE i \in 0..Len(cfg.events) :
                   /\ ~has_event_with_index(cfg, i)
                   /\ \A j \in 0..(i - 1) : has_event_with_index(cfg, j)]

\* NodeConfigStorage::stored_event_count
stored_event_count(cfg) == Len(cfg.events)

\* NodeConfigStorage::has_event
has_event(cfg, evt) == EntryOf(cfg.events, evt) # 0

\* NodeConfigStorage::save_event:
\*   if let Some(item) = self.events.get_mut(evt) { item.vars.copy_from_slice(evs); return Ok(()) }
\*   if let Some(i) = self.find_free_event_slot() {
\*       self.events[evt] = HeaplessLearnedEvent { index: i, vars: Vec::from_slice(&evs).unwrap() };
\*       return Ok(()) }
\*   Err(Error::Exhausted)
save_event(cfg, evt, evs) ==
    LET k == EntryOf(cfg.events, evt)
        slot == find_free_event_slot(cfg)
    IN  IF k # 0
        THEN IF Len(cfg.events[k].vars) # Len(evs) THEN [res |-> "panic", cfg |-> cfg]
             ELSE [res |-> "Ok", cfg |-> [cfg EXCEPT !.events[k].vars = evs]]
        ELSE IF slot.res = "Some"
        THEN IF Len(evs) > EventVarCount THEN [res |-> "panic", cfg |-> cfg]
             ELSE LET r == IndexMap_index_assign(cfg.events, evt, [index |-> slot.i, vars |-> evs])
                  IN  [res |-> r.res, cfg |-> [cfg EXCEPT !.events = r.events]]
        ELSE [res |-> "Exhausted", cfg |-> cfg]

\* NodeConfigStorage::delete_event
delete_event(cfg, evt) == [cfg EXCEPT !.events = IndexMap_remove(cfg.events, evt)]

\* NodeConfigStorage::restore_event_unchecked
restore_event_unchecked(cfg, evt, item) ==
    LET r == IndexMap_insert(cfg.events, evt, item)
    IN  IF r.res = "Ok" THEN [res |-> "Ok", cfg |-> [cfg EXCEPT !.events = r.events]]
        ELSE [res |-> "Exhausted", cfg |-> cfg]

\* NodeConfigStorage::restore_event
restore_event(cfg, evt, item) ==
    IF has_event_with_index(cfg, item.index) THEN [res |-> "OccupiedEntry", cfg |-> cfg]
    ELSE restore_event_unchecked(cfg, evt, item)

(***************************************************************************)
(* EventTableSpec: the learned-event table of a NodeConfigStorage driven   *)
(* through save_event, delete_event and restore_event.  A panic ends the   *)
(* run.                                                                    *)
(***************************************************************************)
\* the events taught: two long events and a short one
EventKeys ==
    { EventId_from_bytes(<<0, 1, 0, 1>>), EventId_from_bytes(<<0, 1, 0, 2>>),
      EventId_short_from_bytes(<<0, 0, 0, 1>>) }
\* the event variables handed over, EVENT_VAR_COUNT octets each
EventVars == { Fill(EventVarCount, 1), Fill(EventVarCount, 2) }
\* the indices restore_event is handed: those of the table and the one past it
RestoreIndices == 0..MaxEvents

\* no earlier call has panicked
Running == IF call.op = "none" THEN TRUE ELSE call.res # "panic"

EventTableInit ==
    /\ config = NodeConfigStorage_default
    /\ buffer = <<>> /\ packet = <<>> /\ wargs = <<>> /\ wdone = {}
    /\ sockets = <<>> /\ ret = NoRet /\ data = <<>>
    /\ dev_rx = <<>> /\ dev_txcap = 0 /\ pc = "idle" /\ poll = PollIdle
    /\ call = NoCall /\ services = <<>> /\ lower = <<>> /\ lower_rx = <<>>

SaveEvent(evt, evs) ==
    /\ Running
    /\ LET r == save_event(config, evt, evs)
       IN  /\ config' = r.cfg
           /\ call' = [op |-> "save_event", evt |-> evt, vars |-> evs, index |-> 0,
                       res |-> r.res, before |-> config]
    /\ UNCHANGED <<wireVars, sockVars, ifaceVars, services, lower, lower_rx>>

DeleteEvent(evt) ==
    /\ Running
    /\ config' = delete_event(config, evt)
    /\ call' = [op |-> "delete_event", evt |-> evt, vars |-> <<>>, index |-> 0,
                res |-> "Ok", before |-> config]
    /\ UNCHANGED <<wireVars, sockVars, ifaceVars, services, lower, lower_rx>>

RestoreEvent(evt, index, evs) ==
    /\ Running
    /\ LET r == restore_event(config, evt, [index |-> index, vars |-> evs])
       IN  /\ config' = r.cfg
           /\ call' = [op |-> "restore_event", evt |-> evt, vars |-> evs, index |-> index,
                       res |-> r.res, before |-> config]
    /\ UNCHANGED <<wireVars, sockVars, ifaceVars, services, lower, lower_rx>>

EventTableNext ==
    \/ \E evt \in EventKeys, evs \in EventVars : SaveEvent(evt, evs)
    \/ \E evt \in EventKeys : DeleteEvent(evt)
    \/ \E evt \in EventKeys, index \in RestoreIndices, evs \in EventVars :
          RestoreEvent(evt, index, evs)

EventTableSpec == EventTableInit /\ [][EventTableNext]_vars

\* the entries of a table that have the key evt
EntriesFor(cfg, evt) == { k \in 1..Len(cfg.events) : cfg.events[k].key = evt }
\* the indices the entries of a table use
UsedIndices(cfg) == { cfg.events[k].index : k \in 1..Len(cfg.events) }
\* the table as a set of entries
Table(cfg) == { cfg.events[k] : k \in 1..Len(cfg.events) }

\* C35: save_event(e, evs) on an event not yet stored, with fewer than
\* MAX_EVENTS events stored, returns Ok without panicking and stores e
\* under the lowest index no stored event uses, with variables evs, so
\* that has_event(e) holds and the count grows by one; on a stored event it
\* replaces the variables and keeps index and count; on a full table and a
\* new event it returns Exhausted and leaves the table unchanged.
SaveEventStores ==
    call.op = "save_event" =>
        LET b == call.before
            e == call.evt
        IN  IF EntriesFor(b, e) # {}
            THEN /\ call.res = "Ok"
                 /\ Len(config.events) = Len(b.events)
                 /\ \A k \in EntriesFor(b, e) :
                       /\ config.events[k].index = b.events[k].index
                       /\ config.events[k].vars = call.vars
            ELSE IF Len(b.events) < MaxEvents
            THEN /\ call.res = "Ok"
                 /\ Len(config.events) = Len(b.events) + 1
                 /\ \E k \in EntriesFor(config, e) :
                       /\ config.events[k].vars = call.vars
                       /\ config.events[k].index \notin UsedIndices(b)
                       /\ \A j \in 0..(config.events[k].index - 1) : j \in UsedIndices(b)
            ELSE /\ call.res = "Exhausted"
                 /\ config = b

\* C36: after any sequence of save_event, delete_event and restore_event
\* calls no two stored events share an index, every stored index is below
\* MAX_EVENTS and the count is at most MAX_EVENTS; restore_event with an
\* index in use returns OccupiedEntry and leaves the table unchanged;
\* delete_event(e) makes has_event(e) false, frees e's index and changes
\* nothing for an event that is not stored.
EventTableConsistent ==
    /\ \A j, k \in 1..Len(config.events) :
          config.events[j].index = config.events[k].index => j = k
    /\ \A k \in 1..Len(config.events) : config.events[k].index < MaxEvents
    /\ Len(config.events) <= MaxEvents
    /\ (call.op = "restore_event" /\ call.index \in UsedIndices(call.before)) =>
          /\ call.res = "OccupiedEntry"
          /\ config = call.before
    /\ call.op = "delete_event" =>
          /\ EntriesFor(config, call.evt) = {}
          /\ Table(config) = { x \in Table(call.before) : x.key # call.evt }
          /\ (EntriesFor(call.before, call.evt) = {} => config = call.before)

(***************************************************************************)
(* persistence/node_config.rs: NodeConfigStorage, the mode, the addresses, *)
(* the flags and wipe.  NodeFlags is the bit set Heartbeat = 1,            *)
(* EventAck = 2 (core/module.rs).                                          *)
(***************************************************************************)
\* NodeConfigStorage::set_can_id
set_can_id(cfg, can_id) == [cfg EXCEPT !.can_id = can_id]

\* NodeConfigStorage::set_mode_uninitialized
set_mode_uninitialized(cfg) ==
    [cfg EXCEPT !.current_mode = "UNINITIALISED", !.node_number = <<0, 0>>]

\* NodeConfigStorage::set_mode_normal
set_mode_normal(cfg, node_number) ==
    [cfg EXCEPT !.current_mode = "NORMAL", !.node_number = node_number]

\* NodeConfigStorage::set_node_number
set_node_number(cfg, node_number) == [cfg EXCEPT !.node_number = node_number]

\* NodeConfigStorage::raise_reset_flag
raise_reset_flag(cfg) == [cfg EXCEPT !.reset_flag = TRUE]

\* NodeConfigStorage::clear_reset_flag
clear_reset_flag(cfg) == [cfg EXCEPT !.reset_flag = FALSE]

\* NodeConfigStorage::set_flags
set_flags(cfg, flags) == [cfg EXCEPT !.flags = flags]

\* NodeConfigStorage::set_heartbeat: insert or remove NodeFlags::Heartbeat
set_heartbeat(cfg, state) ==
    [cfg EXCEPT !.flags = IF state THEN Or8(@, 1) ELSE And8(@, Not8(1))]

\* NodeConfigStorage::set_event_ack: insert or remove NodeFlags::EventAck
set_event_ack(cfg, state) ==
    [cfg EXCEPT !.flags = IF state THEN Or8(@, 2) ELSE And8(@, Not8(2))]

\* a plausible slip: wipe forgets the node number
wipe_keeps_node_number(cfg) ==
    [cfg EXCEPT !.events = <<>>, !.nvs = Fill(Len(cfg.nvs), 0), !.can_id = 0,
                !.current_mode = "UNINITIALISED", !.flags = 0, !.reset_flag = TRUE]

\* Storage::wipe for NodeConfigStorage
wipe(cfg) ==
    [cfg EXCEPT !.events = <<>>, !.nvs = Fill(Len(cfg.nvs), 0), !.can_id = 0,
                !.node_number = <<0, 0>>, !.current_mode = "UNINITIALISED",
                !.flags = 0, !.reset_flag = TRUE]

(***************************************************************************)
(* ConfigSpec: a NodeConfigStorage taken through its setters and wiped.    *)
(***************************************************************************)
\* the node numbers, bus addresses and flag sets handed to the setters
NodeNumbers == { <<1, 2>> }
CanIds == { 5 }

ConfigInit ==
    /\ config = NodeConfigStorage_default
    /\ buffer = <<>> /\ packet = <<>> /\ wargs = <<>> /\ wdone = {}
    /\ sockets = <<>> /\ ret = NoRet /\ data = <<>>
    /\ dev_rx = <<>> /\ dev_txcap = 0 /\ pc = "idle" /\ poll = PollIdle
    /\ call = NoCall /\ services = <<>> /\ lower = <<>> /\ lower_rx = <<>>

\* one of the setters that cannot fail
ConfigSet(op, after) ==
    /\ config' = after
    /\ call' = [op |-> op, before |-> config]
    /\ UNCHANGED <<wireVars, sockVars, ifaceVars, services, lower, lower_rx>>

SetCanId(can_id) == ConfigSet("set_can_id", set_can_id(config, can_id))
SetModeUninitialized == ConfigSet("set_mode_uninitialized", set_mode_uninitialized(config))
SetNodeNumber(nn) == ConfigSet("set_node_number", set_node_number(config, nn))
RaiseResetFlag == ConfigSet("raise_reset_flag", raise_reset_flag(config))
ClearResetFlag == ConfigSet("clear_reset_flag", clear_reset_flag(config))
SetHeartbeat(state) == ConfigSet("set_heartbeat", set_heartbeat(config, state))
SetEventAck(state) == ConfigSet("set_event_ack", set_event_ack(config, state))
Wipe == ConfigSet("wipe", wipe(config))

SetModeNormal(nn) ==
    /\ config' = set_mode_normal(config, nn)
    /\ call' = [op |-> "set_mode_normal", before |-> config, node_number |-> nn]
    /\ UNCHANGED <<wireVars, sockVars, ifaceVars, services, lower, lower_rx>>

\* set_nv(0, 7) and restore_event of one event, to fill the arrays
ConfigFill ==
    \/ ConfigSet("set_nv", set_nv(config, 0, 7).cfg)
    \/ \E evt \in EventKeys :
          ConfigSet("restore_event",
                    restore_event(config, evt, [index |-> 0, vars |-> Fill(EventVarCount, 1)]).cfg)

ConfigNext ==
    \/ \E can_id \in CanIds : SetCanId(can_id)
    \/ SetModeUninitialized
    \/ \E nn \in NodeNumbers : SetModeNormal(nn)
    \/ \E nn \in NodeNumbers : SetNodeNumber(nn)
    \/ RaiseResetFlag
    \/ ClearResetFlag
    \/ \E state \in BOOLEAN : SetHeartbeat(state)
    \/ \E state \in BOOLEAN : SetEventAck(state)
    \/ ConfigFill
    \/ Wipe

ConfigSpec == ConfigInit /\ [][ConfigNext]_vars

\* C39: wipe returns the configuration to the unassigned state from any
\* prior state: no stored events, every node variable 0, CAN id and node
\* number at their zero defaults, mode UNINITIALISED, flags empty and the
\* reset flag raised; set_mode_uninitialized resets the node number to
\* zero; set_mode_normal(nn) sets the mode to NORMAL and the node number
\* to nn.
WipeUnassigns ==
    /\ call.op = "wipe" =>
          /\ config.events = <<>>
          /\ Len(config.nvs) = NodeVarCount
          /\ \A i \in 1..Len(config.nvs) : config.nvs[i] = 0
          /\ config.can_id = 0
          /\ config.node_number = <<0, 0>>
          /\ config.current_mode = "UNINITIALISED"
          /\ config.flags = 0
          /\ config.reset_flag
    /\ call.op = "set_mode_uninitialized" =>
          /\ config.current_mode = "UNINITIALISED"
          /\ config.node_number = <<0, 0>>
    /\ call.op = "set_mode_normal" =>
          /\ config.current_mode = "NORMAL"
          /\ config.node_number = call.node_number

\* C39 witness: wipe was called on a configuration in NORMAL mode with node
\* number 1.2, CAN id 5, both flags set, the reset flag clear, a node
\* variable at 7 and a learned event
WipedFromConfigured ==
    /\ call.op = "wipe"
    /\ call.before.current_mode = "NORMAL"
    /\ call.before.node_number = <<1, 2>>
    /\ call.before.can_id = 5
    /\ call.before.flags = 3
    /\ ~call.before.reset_flag
    /\ call.before.nvs[1] = 7
    /\ call.before.events # <<>>
    /\ config.node_number = <<0, 0>>

(***************************************************************************)
(* persistence/node_config.rs: PersistentNodeConfigStorage, a              *)
(* NodeConfigStorage with a dirty flag over a storage driver.  The record  *)
(* is [driver, dirty, inner]; driver is the octets of the storage device,  *)
(* the octet at address a being driver[a + 1].                             *)
(***************************************************************************)
OFFSET == 0                   \* the generic parameter OFFSET
PERSISTENT_BLOCK_SIZE == 10
FLAGGED_AS_RESET == 99
RESET_FLAG_CLEARED == 0
CANID_SIZE == 1
\* vlcb_defs::VlcbModeParams as u8
MODE_NORMAL == 1
MODE_UNINITIALISED == 255

bytes_per_event == EventVarCount + EVENT_SIZE
mode_addr == OFFSET
can_id_addr == mode_addr + 1
node_num_addr_start == can_id_addr + CANID_SIZE
node_num_addr_end == node_num_addr_start + NODENUM_SIZE - 1
flags_addr == node_num_addr_end + 1
reset_flag_addr == flags_addr + 1
persistent_sub_block_end == OFFSET + PERSISTENT_BLOCK_SIZE - 1
event_addr_start == persistent_sub_block_end + 1
event_addr_end == event_addr_start + (bytes_per_event * MaxEvents)
nv_addr_start == event_addr_end + 1
nv_addr_end == nv_addr_start + NodeVarCount
block_end == nv_addr_end

\* `mode as u8` and VlcbModeParams::from(u8), for the two modes stored
mode_as_u8(mode) == IF mode = "NORMAL" THEN MODE_NORMAL ELSE MODE_UNINITIALISED
VlcbModeParams_from(octet) == IF octet = MODE_NORMAL THEN "NORMAL" ELSE "OTHER"

\* NodeFlags::from_bits(..).unwrap_or(NodeFlags::empty()): bits outside
\* Heartbeat | EventAck make from_bits return None
NodeFlags_from_bits_or_empty(octet) == IF octet <= 3 THEN octet ELSE 0

\* embedded_storage read(offset, &mut buf[..n]) with the result dropped:
\* the first n octets of buf are overwritten when the range lies inside the
\* device, and buf stays as it was when the driver answers Err
Storage_read(driver, addr, buf, n) ==
    IF addr + n <= Len(driver)
    THEN SubSeq(driver, addr + 1, addr + n) \o SubSeq(buf, n + 1, Len(buf))
    ELSE buf

\* embedded_storage write(offset, bytes) with the result dropped
Storage_write(driver, addr, bytes) ==
    IF addr + Len(bytes) <= Len(driver)
    THEN SubSeq(driver, 1, addr) \o bytes \o SubSeq(driver, addr + Len(bytes) + 1, Len(driver))
    ELSE driver

\* PersistentNodeConfigStorage::new
PersistentNodeConfigStorage_new(driver) ==
    [driver |-> driver, dirty |-> FALSE, inner |-> NodeConfigStorage_default]

\* a plausible slip: the mutable access does not raise the flag
mark_as_dirty_forgotten(p) == p

\* PersistentNodeConfigStorage::mark_as_dirty
mark_as_dirty(p) == [p EXCEPT !.dirty = TRUE]

\* the steps of flush_to_storage share st = [driver, buf, writes]: the
\* device, the read-out block buf and the number of write calls made.
\* One step reads n octets at addr into buf and, when they differ from
\* value, copies value over them and writes the first len octets of buf
flush_field(st, addr, value, len) ==
    LET n == Len(value)
        rd == Storage_read(st.driver, addr, st.buf, n)
        wr == value \o SubSeq(rd, n + 1, Len(rd))
    IN  IF SubSeq(rd, 1, n) # value
        THEN [driver |-> Storage_write(st.driver, addr, SubSeq(wr, 1, len)),
              buf |-> wr, writes |-> st.writes + 1]
        ELSE [st EXCEPT !.buf = rd]

\* PersistentNodeConfigStorage::flush_to_storage.  buf is a block of
\* cmax(1, cmax(CANID_SIZE, NODENUM_SIZE)) = 2 octets that starts
\* uninitialised: junk stands for what it holds.  The mode, the flags and
\* the reset flag are written as &buf[..1], the node number as
\* &buf[..NODENUM_SIZE], the CAN id as the whole of &buf.  Neither the
\* events nor the node variables are written.  s0 is the state at entry and
\* s1 to s5 the states after the mode, the node number, the flags, the
\* CAN id and the reset flag
flush_to_storage(p, junk) ==
    LET inner == p.inner
        flag == IF inner.reset_flag THEN FLAGGED_AS_RESET ELSE RESET_FLAG_CLEARED
    IN  CHOOSE out \in
          { [p |-> [p EXCEPT !.driver = s5.driver], writes |-> s5.writes] :
            s5 \in { flush_field(s4, reset_flag_addr, <<flag>>, 1) :
            s4 \in { flush_field(s3, can_id_addr, <<inner.can_id>>, Len(s3.buf)) :
            s3 \in { flush_field(s2, flags_addr, <<inner.flags>>, 1) :
            s2 \in { IF inner.current_mode = "NORMAL"
                     THEN flush_field(s1, node_num_addr_start, inner.node_number, NODENUM_SIZE)
                     ELSE s1 :
            s1 \in { flush_field(s0, mode_addr, <<mode_as_u8(inner.current_mode)>>, 1) :
            s0 \in { [driver |-> p.driver, buf |-> <<junk, junk>>, writes |-> 0] } } } } } } } :
          TRUE

\* PersistentStorage::flush
flush(p, junk) ==
    IF ~p.dirty THEN [p |-> p, writes |-> 0]
    ELSE LET r == flush_to_storage(p, junk)
         IN  [p |-> [r.p EXCEPT !.dirty = FALSE], writes |-> r.writes]

\* PersistentStorage::force_flush
force_flush(p, junk) == flush_to_storage(p, junk)

\* Storage::wipe of PersistentNodeConfigStorage:
\*   self.inner.wipe(); self.dirty = true; self.flush();
PersistentNodeConfigStorage_wipe(p, junk) ==
    flush([p EXCEPT !.inner = wipe(p.inner), !.dirty = TRUE], junk)

\* the delegate! block "to self.mark_as_dirty()": the flag is raised, then
\* the operation m = [fn, evt, index, vars, value, nn, state] runs on the
\* inner NodeConfigStorage
delegate_mark_as_dirty(p, m) ==
    LET q == mark_as_dirty(p)
        cfg == q.inner
        item == [index |-> m.index, vars |-> m.vars]
        r == CASE m.fn = "save_event" -> save_event(cfg, m.evt, m.vars)
               [] m.fn = "restore_event" -> restore_event(cfg, m.evt, item)
               [] m.fn = "restore_event_unchecked" -> restore_event_unchecked(cfg, m.evt, item)
               [] m.fn = "delete_event" -> [res |-> "Ok", cfg |-> delete_event(cfg, m.evt)]
               [] m.fn = "set_nv" -> set_nv(cfg, m.index, m.value)
               [] m.fn = "set_can_id" -> [res |-> "Ok", cfg |-> set_can_id(cfg, m.value)]
               [] m.fn = "set_mode_normal" -> [res |-> "Ok", cfg |-> set_mode_normal(cfg, m.nn)]
               [] m.fn = "set_mode_uninitialized" ->
                      [res |-> "Ok", cfg |-> set_mode_uninitialized(cfg)]
               [] m.fn = "set_node_number" -> [res |-> "Ok", cfg |-> set_node_number(cfg, m.nn)]
               [] m.fn = "raise_reset_flag" -> [res |-> "Ok", cfg |-> raise_reset_flag(cfg)]
               [] m.fn = "clear_reset_flag" -> [res |-> "Ok", cfg |-> clear_reset_flag(cfg)]
               [] m.fn = "set_heartbeat" -> [res |-> "Ok", cfg |-> set_heartbeat(cfg, m.state)]
               [] m.fn = "set_event_ack" -> [res |-> "Ok", cfg |-> set_event_ack(cfg, m.state)]
               [] m.fn = "set_flags" -> [res |-> "Ok", cfg |-> set_flags(cfg, m.value)]
    IN  [res |-> r.res, p |-> [q EXCEPT !.inner = r.cfg]]

\* the delegate! block "to self.inner": the read-only operations, answered
\* by the inner NodeConfigStorage; self is borrowed shared
delegate_inner(p, m) ==
    LET cfg == p.inner
    IN  CASE m.fn = "stored_event_count" -> stored_event_count(cfg)
          [] m.fn = "has_event_with_index" -> has_event_with_index(cfg, m.index)
          [] m.fn = "get_event" -> EntryOf(cfg.events, m.evt)
          [] m.fn = "has_event" -> has_event(cfg, m.evt)
          [] m.fn = "get_nv" -> get_nv(cfg, m.index)
          [] m.fn = "can_id" -> cfg.can_id
          [] m.fn = "mode" -> cfg.current_mode
          [] m.fn = "node_number" -> cfg.node_number
          [] m.fn = "was_reset" -> cfg.reset_flag
          [] m.fn = "is_heartbeat_on" -> And8(cfg.flags, 1) # 0
          [] m.fn = "is_event_ack_on" -> And8(cfg.flags, 2) # 0
          [] m.fn = "flags" -> cfg.flags

\* PersistentNodeConfigStorage::detect_virgin_storage_state: the
\* PERSISTENT_BLOCK_SIZE octets read at address 0 are all 0xFF
detect_virgin_storage_state(p, junk) ==
    LET buf == Storage_read(p.driver, 0, Fill(PERSISTENT_BLOCK_SIZE, junk), PERSISTENT_BLOCK_SIZE)
    IN  \A i \in 1..Len(buf) : buf[i] = UNINITIALISED_VALUE

\* PersistentNodeConfigStorage::reload_event_hash_table from slot index on:
\* the slots are event_addr_start..=event_addr_end in steps of
\* bytes_per_event; a slot whose event octets are not all 0xFF goes to
\* set_event_item, which indexes the map by the event
RECURSIVE reload_event_hash_table_from(_, _, _)
reload_event_hash_table_from(p, buf, index) ==
    LET addr == event_addr_start + index * bytes_per_event
        rd == Storage_read(p.driver, addr, buf, bytes_per_event)
        r == set_event_item(p.inner, EventId_from_bytes(SubSeq(rd, 1, EVENT_SIZE)),
                            [index |-> index % 256,
                             vars |-> SubSeq(rd, EVENT_SIZE + 1, bytes_per_event)])
    IN  IF addr > event_addr_end THEN [res |-> "Ok", p |-> p]
        ELSE IF SubSeq(rd, 1, EVENT_SIZE) = Fill(EVENT_SIZE, UNINITIALISED_VALUE)
        THEN reload_event_hash_table_from(p, rd, index + 1)
        ELSE IF r.res = "panic" THEN [res |-> "panic", p |-> p]
        ELSE reload_event_hash_table_from([p EXCEPT !.inner = r.cfg], rd, index + 1)

\* PersistentNodeConfigStorage::reload_event_hash_table
reload_event_hash_table(p, junk) ==
    reload_event_hash_table_from(p, Fill(bytes_per_event, junk), 0)

\* PersistentNodeConfigStorage::reload_nv from index on: the addresses are
\* nv_addr_start..=nv_addr_end and the octet read at the index-th of them
\* goes to set_nv((index + 1) as u8, ..).unwrap()
RECURSIVE reload_nv_from(_, _, _)
reload_nv_from(p, buf, index) ==
    LET addr == nv_addr_start + index
        rd == Storage_read(p.driver, addr, buf, 1)
        r == set_nv(p.inner, (index + 1) % 256, rd[1])
    IN  IF addr > nv_addr_end THEN [res |-> "Ok", p |-> p]
        ELSE IF r.res # "Ok" THEN [res |-> "panic", p |-> p]
        ELSE reload_nv_from([p EXCEPT !.inner = r.cfg], rd, index + 1)

\* PersistentNodeConfigStorage::reload_nv
reload_nv(p, junk) == reload_nv_from(p, <<junk>>, 0)

\* the steps of load share t = [buf, cfg]: the 2-octet read-out block and
\* the inner NodeConfigStorage.  The mode, with the node number under NORMAL
load_mode(driver, t) ==
    LET b1 == Storage_read(driver, mode_addr, t.buf, 1)
        b2 == Storage_read(driver, node_num_addr_start, b1, NODENUM_SIZE)
    IN  IF VlcbModeParams_from(b1[1]) = "NORMAL"
        THEN [buf |-> b2, cfg |-> set_mode_normal(t.cfg, SubSeq(b2, 1, NODENUM_SIZE))]
        ELSE [buf |-> b1, cfg |-> set_mode_uninitialized(t.cfg)]

\* load: the flags, or the empty set of flags
load_flags(driver, t) ==
    LET b == Storage_read(driver, flags_addr, t.buf, 1)
    IN  [buf |-> b, cfg |-> set_flags(t.cfg, NodeFlags_from_bits_or_empty(b[1]))]

\* load: the CAN id
load_can_id(driver, t) ==
    LET b == Storage_read(driver, can_id_addr, t.buf, CANID_SIZE)
    IN  [buf |-> b, cfg |-> set_can_id(t.cfg, VlcbCanId_from_bytes(b[1]))]

\* load: the reset flag, raised when the stored octet is FLAGGED_AS_RESET
load_reset_flag(driver, t) ==
    LET b == Storage_read(driver, reset_flag_addr, t.buf, 1)
    IN  [buf |-> b,
         cfg |-> IF b[1] = FLAGGED_AS_RESET THEN raise_reset_flag(t.cfg) ELSE t.cfg]

\* the block of load that reads the fields from the device of p, buf
\* uninitialised at first
load_fields(p, junk) ==
    CHOOSE out \in
      { load_reset_flag(p.driver, t3).cfg :
        t3 \in { load_can_id(p.driver, t2) :
        t2 \in { load_flags(p.driver, t1) :
        t1 \in { load_mode(p.driver, t0) :
        t0 \in { [buf |-> <<junk, junk>>, cfg |-> p.inner] } } } } } :
      TRUE

\* PersistentStorage::load: on a virgin device clear_reset_flag and
\* force_flush first (p0 is the store after that), then the fields, then
\* reload_event_hash_table and reload_nv
load(p, junk) ==
    CHOOSE out \in
      { IF ev.res = "panic" THEN ev ELSE reload_nv(ev.p, junk) :
        ev \in { reload_event_hash_table([p0 EXCEPT !.inner = load_fields(p0, junk)], junk) :
        p0 \in { IF detect_virgin_storage_state(p, junk)
                 THEN force_flush(delegate_mark_as_dirty(p, [fn |-> "clear_reset_flag"]).p,
                                  junk).p
                 ELSE p } } } :
      TRUE

(***************************************************************************)
(* PersistSpec: a PersistentNodeConfigStorage over a blank storage device  *)
(* that answers every read and write of the block.  The operations of      *)
(* NodeConfig, flush, force_flush and wipe are called in any order; load   *)
(* runs on a fresh PersistentNodeConfigStorage over the same device.  A    *)
(* panic ends the run.                                                     *)
(***************************************************************************)
\* the device ends after the last octet load reads
DriverCapacity == block_end + bytes_per_event
\* what an uninitialised octet may hold
JunkOctets == {0, 170}

\* a call of the operation fn with every argument at a default
Op(fn) ==
    [fn |-> fn, evt |-> EventId_from_bytes(<<0, 1, 0, 1>>), index |-> 0,
     vars |-> Fill(EventVarCount, 1), value |-> 0, nn |-> <<1, 2>>, state |-> TRUE]

\* every operation of the delegate! block "to self.mark_as_dirty()", set_nv
\* both inside and past the array
Mutations ==
    { Op("save_event"), Op("restore_event"), Op("restore_event_unchecked"),
      Op("delete_event"), Op("set_nv"), [Op("set_nv") EXCEPT !.index = NodeVarCount],
      [Op("set_can_id") EXCEPT !.value = 5], Op("set_mode_normal"),
      Op("set_mode_uninitialized"), Op("set_node_number"), Op("raise_reset_flag"),
      Op("clear_reset_flag"), Op("set_heartbeat"), [Op("set_event_ack") EXCEPT !.state = FALSE],
      Op("set_flags") }

\* every operation of the delegate! block "to self.inner"
Queries ==
    { Op("stored_event_count"), Op("has_event_with_index"), Op("get_event"), Op("has_event"),
      Op("get_nv"), Op("can_id"), Op("mode"), Op("node_number"), Op("was_reset"),
      Op("is_heartbeat_on"), Op("is_event_ack_on"), Op("flags") }

PersistInit ==
    /\ config = PersistentNodeConfigStorage_new(Fill(DriverCapacity, UNINITIALISED_VALUE))
    /\ buffer = <<>> /\ packet = <<>> /\ wargs = <<>> /\ wdone = {}
    /\ sockets = <<>> /\ ret = NoRet /\ data = <<>>
    /\ dev_rx = <<>> /\ dev_txcap = 0 /\ pc = "idle" /\ poll = PollIdle
    /\ call = NoCall /\ services = <<>> /\ lower = <<>> /\ lower_rx = <<>>

\* what call keeps of a call that left the store as p: the operation, its
\* result, the number of writes to the device, the dirty flag before the
\* call and whether the call left the store as it was
Called(op, kind, res, writes, p) ==
    [op |-> op, kind |-> kind, res |-> res, writes |-> writes,
     was_dirty |-> config.dirty, same |-> (p = config), same_inner |-> (p.inner = config.inner)]

\* one of the operations delegated to self.mark_as_dirty()
Mutate(m) ==
    /\ Running
    /\ LET r == delegate_mark_as_dirty(config, m)
       IN  /\ config' = r.p
           /\ call' = Called("mutation", "mutate", r.res, 0, r.p)
    /\ UNCHANGED <<wireVars, sockVars, ifaceVars, services, lower, lower_rx>>

\* one of the operations delegated to self.inner: self is borrowed shared
\* and the answer of delegate_inner goes to the caller
Query(m) ==
    /\ Running
    /\ delegate_inner(config, m) = delegate_inner(config, m)
    /\ config' = config
    /\ call' = Called("query", "read", "Ok", 0, config)
    /\ UNCHANGED <<wireVars, sockVars, ifaceVars, services, lower, lower_rx>>

Flush(junk) ==
    /\ Running
    /\ LET r == flush(config, junk)
       IN  /\ config' = r.p
           /\ call' = Called("flush", "storage", "Ok", r.writes, r.p)
    /\ UNCHANGED <<wireVars, sockVars, ifaceVars, services, lower, lower_rx>>

ForceFlush(junk) ==
    /\ Running
    /\ LET r == force_flush(config, junk)
       IN  /\ config' = r.p
           /\ call' = Called("force_flush", "storage", "Ok", r.writes, r.p)
    /\ UNCHANGED <<wireVars, sockVars, ifaceVars, services, lower, lower_rx>>

PersistentWipe(junk) ==
    /\ Running
    /\ LET r == PersistentNodeConfigStorage_wipe(config, junk)
       IN  /\ config' = r.p
           /\ call' = Called("wipe", "storage", "Ok", r.writes, r.p)
    /\ UNCHANGED <<wireVars, sockVars, ifaceVars, services, lower, lower_rx>>

\* the node restarts: a fresh PersistentNodeConfigStorage over the same
\* device is loaded; call.before is the store that was running
Load(junk) ==
    /\ Running
    /\ LET r == load(PersistentNodeConfigStorage_new(config.driver), junk)
       IN  /\ config' = r.p
           /\ call' = [op |-> "load", kind |-> "storage", res |-> r.res, writes |-> 0,
                       before |-> config]
    /\ UNCHANGED <<wireVars, sockVars, ifaceVars, services, lower, lower_rx>>

PersistNext ==
    \/ \E m \in Mutations : Mutate(m)
    \/ \E m \in Queries : Query(m)
    \/ \E junk \in JunkOctets : Flush(junk)
    \/ \E junk \in JunkOctets : ForceFlush(junk)
    \/ \E junk \in JunkOctets : PersistentWipe(junk)
    \/ \E junk \in JunkOctets : Load(junk)

PersistSpec == PersistInit /\ [][PersistNext]_vars

\* the device holds the mode, the flags, the CAN id and the reset flag of p
Stored(p) ==
    /\ p.driver[mode_addr + 1] = mode_as_u8(p.inner.current_mode)
    /\ p.driver[flags_addr + 1] = p.inner.flags
    /\ p.driver[can_id_addr + 1] = p.inner.can_id
    /\ p.driver[reset_flag_addr + 1] =
          IF p.inner.reset_flag THEN FLAGGED_AS_RESET ELSE RESET_FLAG_CLEARED

\* C37: every mutating NodeConfig operation leaves the dirty flag set,
\* whether it returns Ok or an error, and no read-only operation changes
\* it; flush writes to the device and clears the flag when the flag is set
\* and neither writes nor changes anything when it is clear; force_flush
\* writes whatever the flag says and leaves the flag as it was; after wipe
\* the flag is clear.
DirtyFlagTracksMutations ==
    IF call.op \in {"none", "load"} THEN TRUE
    ELSE /\ call.kind = "mutate" => config.dirty
         /\ call.kind = "read" => config.dirty = call.was_dirty /\ call.same
         /\ call.op = "flush" =>
               IF call.was_dirty
               THEN ~config.dirty /\ Stored(config) /\ call.same_inner
               ELSE call.same /\ call.writes = 0
         /\ call.op = "force_flush" =>
               /\ config.dirty = call.was_dirty
               /\ call.same_inner
               /\ Stored(config)
         /\ call.op = "wipe" => ~config.dirty

\* C37 witness: set_nv past the array returned OutOfRange on a clean store
\* and the flag is now set
FailedMutationMarkedDirty ==
    IF call.op \in {"none", "load"} THEN FALSE
    ELSE /\ call.kind = "mutate"
         /\ call.res = "OutOfRange"
         /\ ~call.was_dirty
         /\ config.dirty

\* C38: after any sequence of mutations and a flush, load on a fresh
\* PersistentNodeConfigStorage over the same device completes without a
\* panic and restores the mode, the node number when the mode is NORMAL,
\* the CAN id, the flags, the reset flag, the learned events and the node
\* variables.
FlushLoadRoundTrip ==
    IF call.op # "load" THEN TRUE
    ELSE ~call.before.dirty =>
            /\ call.res = "Ok"
            /\ config.inner.current_mode = call.before.inner.current_mode
            /\ call.before.inner.current_mode = "NORMAL" =>
                  config.inner.node_number = call.before.inner.node_number
            /\ config.inner.can_id = call.before.inner.can_id
            /\ config.inner.flags = call.before.inner.flags
            /\ config.inner.reset_flag = call.before.inner.reset_flag
            /\ config.inner.events = call.before.inner.events
            /\ config.inner.nvs = call.before.inner.nvs

\* load never returns: it panics in every run
LoadPanics == IF call.op = "load" THEN call.res = "panic" ELSE TRUE

(***************************************************************************)
(* wire/mod.rs: HardwareAddress, [tag |-> "CAN", node |-> the octets of    *)
(* the VlcbCanId], and RawHardwareAddress, [len, data] with data of        *)
(* MAX_HARDWARE_ADDRESS_LEN octets.                                        *)
(***************************************************************************)
MAX_HARDWARE_ADDRESS_LEN == 2

\* VlcbCanId::from_bytes on a slice: copy_from_slice into [0; CANID_SIZE]
\* panics unless data is CANID_SIZE octets long
VlcbCanId_from_slice(d) ==
    IF Len(d) # CANID_SIZE THEN "panic"
    ELSE <<VlcbCanId_from_bytes(d[1])>>

\* HardwareAddress::as_bytes
HardwareAddress_as_bytes(hw) == hw.node

\* RawHardwareAddress::from_bytes: data[..addr.len()].copy_from_slice(addr)
RawHardwareAddress_from_bytes(addr) ==
    IF Len(addr) > MAX_HARDWARE_ADDRESS_LEN THEN "panic"
    ELSE [len |-> Len(addr), data |-> addr \o Fill(MAX_HARDWARE_ADDRESS_LEN - Len(addr), 0)]

\* RawHardwareAddress::as_bytes
RawHardwareAddress_as_bytes(raw) == SubSeq(raw.data, 1, raw.len)

\* From<HardwareAddress> for RawHardwareAddress
RawHardwareAddress_from(hw) == RawHardwareAddress_from_bytes(HardwareAddress_as_bytes(hw))

\* RawHardwareAddress::parse(Medium::CAN)
RawHardwareAddress_parse(raw) ==
    IF raw.len < 2 THEN [res |-> "Err", val |-> <<>>]
    ELSE LET addr == VlcbCanId_from_slice(RawHardwareAddress_as_bytes(raw))
         IN  IF addr = "panic" THEN [res |-> "panic", val |-> <<>>]
             ELSE [res |-> "Ok", val |-> [tag |-> "CAN", node |-> addr]]

(***************************************************************************)
(* HwAddrSpec: raw addresses are made from every CAN hardware address and  *)
(* from octet strings of 0 to 2 octets, and parsed for Medium::CAN.        *)
(* wargs is the raw address in hand, with the hardware address it came     *)
(* from.                                                                   *)
(***************************************************************************)
BusAddresses == 0..CANID_MASK
RawOctets == {0, 1, 127, 255}
RawStrings == { <<>> } \cup { <<a>> : a \in RawOctets } \cup { <<a, b>> : a, b \in RawOctets }

HwAddrInit ==
    /\ wargs = [raw |-> RawHardwareAddress_from_bytes(<<>>), hw |-> <<>>]
    /\ buffer = <<>> /\ packet = <<>> /\ wdone = {}
    /\ sockets = <<>> /\ ret = NoRet /\ data = <<>>
    /\ dev_rx = <<>> /\ dev_txcap = 0 /\ pc = "idle" /\ poll = PollIdle
    /\ call = NoCall /\ services = <<>> /\ lower = <<>> /\ lower_rx = <<>>
    /\ config = <<>>

\* RawHardwareAddress::from(HardwareAddress::CAN(id))
RawFromHardwareAddress(id) ==
    /\ LET hw == [tag |-> "CAN", node |-> <<id>>]
       IN  wargs' = [raw |-> RawHardwareAddress_from(hw), hw |-> <<hw>>]
    /\ call' = [op |-> "from"]
    /\ UNCHANGED <<buffer, packet, wdone, sockVars, ifaceVars, services, lower, lower_rx, config>>

\* RawHardwareAddress::from_bytes(addr)
RawFromBytes(addr) ==
    /\ wargs' = [raw |-> RawHardwareAddress_from_bytes(addr), hw |-> <<>>]
    /\ call' = [op |-> "from_bytes"]
    /\ UNCHANGED <<buffer, packet, wdone, sockVars, ifaceVars, services, lower, lower_rx, config>>

\* raw.parse(Medium::CAN) on the raw address in hand
RawParse ==
    /\ call.op \in {"from", "from_bytes"}
    /\ LET r == RawHardwareAddress_parse(wargs.raw)
       IN  call' = [op |-> "parse", res |-> r.res, val |-> r.val]
    /\ UNCHANGED <<wireVars, sockVars, ifaceVars, services, lower, lower_rx, config>>

HwAddrNext ==
    \/ \E id \in BusAddresses : RawFromHardwareAddress(id)
    \/ \E addr \in RawStrings : RawFromBytes(addr)
    \/ RawParse

HwAddrSpec == HwAddrInit /\ [][HwAddrNext]_vars

\* C40: parsing the raw form of HardwareAddress::CAN(id) for Medium::CAN
\* returns Ok(HardwareAddress::CAN(id)) for every bus address id, and
\* parse never panics on a raw address of 0 to 2 octets.
RawAddressRoundTrip ==
    call.op = "parse" =>
        /\ call.res # "panic"
        /\ wargs.hw # <<>> => call.res = "Ok" /\ call.val = wargs.hw[1]

\* parse returns Err for every raw address shorter than 2 octets, the raw
\* form of every hardware address among them, and panics on 2 octets
ParseNeverOk ==
    call.op = "parse" =>
        /\ call.res = (IF wargs.raw.len < 2 THEN "Err" ELSE "panic")
        /\ wargs.hw # <<>> => wargs.raw.len = 1
====
